---------------------------- MODULE Spec2Model ----------------------------
(***************************************************************************)
(* Declutter: the content extraction pipeline.                             *)
(*   src/src/file_parser.py      FileParser   (directory scan + handlers)  *)
(*   src/src/smart_extractor.py  SmartExtractor (four extraction modes)    *)
(* Text is modelled by TLA+ strings, one character per code point; the     *)
(* operators below give the Python string operations the code uses.        *)
(***************************************************************************)
EXTENDS Integers, Sequences, FiniteSets, TLC

(***************************************************************************)
(* Bounds of the model.                                                    *)
(***************************************************************************)
MaxFiles == 3        \* entries in the scanned directory
MaxRuns == 2         \* parse_all_files runs on the unchanged directory
MaxLines == 2        \* lines of a log handed to the extractor
MaxExtractions == 2  \* extractor calls recorded in one behaviour
LongLogLines == 1000 \* lines of the long log
ChattyLogLines == 300 \* lines of the log whose every line is retained
MaxStores == 3       \* VectorStore.store calls on one collection
MaxMains == 2        \* runs of main on one output directory

(***************************************************************************)
(* Characters.  AsciiLow lists the printable ASCII characters U+0020 to    *)
(* U+005F and AsciiHigh those from U+0061 to U+007E, in code point order.  *)
(***************************************************************************)
AsciiLow == " !\"#$%&'()*+,-./0123456789:;<=>?@ABCDEFGHIJKLMNOPQRSTUVWXYZ[\\]^_"

AsciiHigh == "abcdefghijklmnopqrstuvwxyz{|}~"

AsciiChars ==
  {SubSeq(AsciiLow, i, i) : i \in 1..Len(AsciiLow)} \cup
  {SubSeq(AsciiHigh, i, i) : i \in 1..Len(AsciiHigh)}

OrdTable ==
  [c \in AsciiChars |->
     IF \E i \in 1..Len(AsciiLow) : SubSeq(AsciiLow, i, i) = c
     THEN 31 + CHOOSE i \in 1..Len(AsciiLow) : SubSeq(AsciiLow, i, i) = c
     ELSE 96 + CHOOSE i \in 1..Len(AsciiHigh) : SubSeq(AsciiHigh, i, i) = c]

\* ord(c): "\n" and "\t" are control characters, "ﾀ" is U+FF80, a letter outside ASCII.
Ord(c) ==
  IF c = "\n" THEN 10
  ELSE IF c = "\t" THEN 9
  ELSE IF c = "ﾀ" THEN 65408
  ELSE OrdTable[c]

\* chr(n) for printable ASCII
Chr(n) ==
  IF n <= 95 THEN SubSeq(AsciiLow, n - 31, n - 31) ELSE SubSeq(AsciiHigh, n - 96, n - 96)

At(s, i) == SubSeq(s, i, i)

\* number of bytes of one character in UTF-8
CharBytes(c) ==
  LET n == Ord(c) IN IF n < 128 THEN 1 ELSE IF n < 2048 THEN 2 ELSE 3

\* len(s.encode("utf-8"))
Utf8Len(s) ==
  Len(s) + Cardinality({i \in 1..Len(s) : CharBytes(At(s, i)) >= 2})
         + Cardinality({i \in 1..Len(s) : CharBytes(At(s, i)) >= 3})

LowerChar(c) ==
  LET n == Ord(c) IN IF n >= 65 /\ n <= 90 THEN Chr(n + 32) ELSE c

UpperChar(c) ==
  LET n == Ord(c) IN IF n >= 97 /\ n <= 122 THEN Chr(n - 32) ELSE c

RECURSIVE MapChars(_, _, _, _)
MapChars(s, lo, hi, up) ==
  IF lo > hi THEN ""
  ELSE IF lo = hi THEN (IF up THEN UpperChar(At(s, lo)) ELSE LowerChar(At(s, lo)))
  ELSE LET mid == (lo + hi) \div 2 IN
         MapChars(s, lo, mid, up) \o MapChars(s, mid + 1, hi, up)

\* str.lower() / str.upper()
Lower(s) == MapChars(s, 1, Len(s), FALSE)
Upper(s) == MapChars(s, 1, Len(s), TRUE)

IsSpace(c) == c \in {" ", "\n", "\t"}

IsWordChar(c) ==
  LET n == Ord(c) IN
    \/ n >= 48 /\ n <= 57
    \/ n >= 65 /\ n <= 90
    \/ n >= 97 /\ n <= 122
    \/ n = 95
    \/ n = 65408

\* s.startswith(p) at offset i (1-based)
StartsAt(s, i, p) == i + Len(p) - 1 <= Len(s) /\ SubSeq(s, i, i + Len(p) - 1) = p

StartsWith(s, p) == StartsAt(s, 1, p)

\* p in s
Contains(s, p) == \E i \in 1..(Len(s) + 1) : StartsAt(s, i, p)

\* str.strip()
Strip(s) ==
  LET keep == {i \in 1..Len(s) : ~IsSpace(At(s, i))} IN
    IF keep = {} THEN ""
    ELSE SubSeq(s, CHOOSE i \in keep : \A j \in keep : i <= j,
                   CHOOSE i \in keep : \A j \in keep : j <= i)

\* str.rfind(c): 0 when absent, else the 1-based index of the last c
RFind(s, c) ==
  LET hits == {i \in 1..Len(s) : At(s, i) = c} IN
    IF hits = {} THEN 0 ELSE CHOOSE i \in hits : \A j \in hits : j <= i

\* the index in hits nearest to mid: the least one from mid on, else the
\* greatest one before it (long inputs are cut in halves, not walked)
Nearest(hits, mid) ==
  LET after == {i \in hits : i >= mid} IN
    IF after # {} THEN CHOOSE i \in after : \A j \in after : i <= j
    ELSE CHOOSE i \in hits : \A j \in hits : j <= i

\* s.split(sep) for a one-character separator, over s[lo..hi]
RECURSIVE SplitIn(_, _, _, _)
RECURSIVE SplitAt(_, _, _, _, _)
SplitAt(s, sep, lo, hi, i) == SplitIn(s, sep, lo, i - 1) \o SplitIn(s, sep, i + 1, hi)

SplitIn(s, sep, lo, hi) ==
  LET hits == {i \in lo..hi : At(s, i) = sep} IN
    IF hits = {} THEN <<SubSeq(s, lo, hi)>>
    ELSE SplitAt(s, sep, lo, hi, Nearest(hits, (lo + hi) \div 2))

Split(s, sep) == SplitIn(s, sep, 1, Len(s))

\* sep.join(parts)
RECURSIVE JoinIn(_, _, _, _)
JoinIn(sep, parts, lo, hi) ==
  IF lo > hi THEN ""
  ELSE IF lo = hi THEN parts[lo]
  ELSE JoinIn(sep, parts, lo, (lo + hi) \div 2) \o sep
       \o JoinIn(sep, parts, (lo + hi) \div 2 + 1, hi)

Join(sep, parts) == JoinIn(sep, parts, 1, Len(parts))

\* a < b for str: code point order, a proper prefix first
RECURSIVE StrLessFrom(_, _, _)
StrLessFrom(a, b, i) ==
  IF i > Len(b) THEN FALSE
  ELSE IF i > Len(a) THEN TRUE
  ELSE IF Ord(At(a, i)) < Ord(At(b, i)) THEN TRUE
  ELSE IF Ord(At(a, i)) > Ord(At(b, i)) THEN FALSE
  ELSE StrLessFrom(a, b, i + 1)

StrLess(a, b) == StrLessFrom(a, b, 1)

\* the lines a text file iterates over: each keeps its "\n", the last may not
RECURSIVE LinesIn(_, _, _)
RECURSIVE LinesAt(_, _, _, _)
LinesAt(s, lo, hi, i) == LinesIn(s, lo, i) \o LinesIn(s, i + 1, hi)

LinesIn(s, lo, hi) ==
  IF lo > hi THEN <<>>
  ELSE LET ends == {i \in lo..(hi - 1) : At(s, i) = "\n"} IN
         IF ends = {} THEN <<SubSeq(s, lo, hi)>>
         ELSE LinesAt(s, lo, hi, Nearest(ends, (lo + hi) \div 2))

\* variant: reading stops at a size cap of 500 lines
FileLines_Capped(s) ==
  IF Len(LinesIn(s, 1, Len(s))) > 500 THEN SubSeq(LinesIn(s, 1, Len(s)), 1, 500)
  ELSE LinesIn(s, 1, Len(s))

FileLines(s) == LinesIn(s, 1, Len(s))

\* format(n, ","): decimal with a comma between groups of three digits
RECURSIVE FormatThousands(_)
FormatThousands(n) ==
  IF n < 1000 THEN ToString(n)
  ELSE LET r == n % 1000 IN
         FormatThousands(n \div 1000) \o "," \o
         (IF r < 10 THEN "00" ELSE IF r < 100 THEN "0" ELSE "") \o ToString(r)

(***************************************************************************)
(* Files.  A directory entry is                                            *)
(*   kind      "file", "dir" or "dangling" (a symlink to nothing)          *)
(*   readable  whether open() is permitted                                 *)
(*   text      the characters of the file that decode as UTF-8            *)
(*   junk      the number of bytes that do not decode as UTF-8            *)
(*   children  the named entries of a directory                           *)
(* so a strict read raises when junk > 0 and a read with errors="ignore"  *)
(* yields text.                                                            *)
(***************************************************************************)
File(text, junk, readable) ==
  [kind |-> "file", readable |-> readable, text |-> text, junk |-> junk, children |-> {}]

\* a directory holding the named entries, and a symlink whose target is missing
Directory(children) ==
  [kind |-> "dir", readable |-> TRUE, text |-> "", junk |-> 0, children |-> children]

DanglingLink ==
  [kind |-> "dangling", readable |-> TRUE, text |-> "", junk |-> 0, children |-> {}]

Named(name, entry) == [name |-> name, entry |-> entry]

\* Path(filepath).name
BaseName(filepath) == SubSeq(filepath, RFind(filepath, "/") + 1, Len(filepath))

\* path.stat().st_size
StatSize(f) == Utf8Len(f.text) + f.junk

\* outcome of a call: the returned value, or the exception that propagates
Returned(v) == [exc |-> "", value |-> <<v>>]
Raised(e) == [exc |-> e, value |-> <<>>]

\* open(path, "r", encoding="utf-8") followed by a full read
ReadStrict(f) ==
  IF ~f.readable THEN Raised("PermissionError")
  ELSE IF f.junk > 0 THEN Raised("UnicodeDecodeError")
  ELSE Returned(f.text)

\* open(path, "r", encoding="utf-8", errors="ignore") followed by a full read
ReadIgnore(f) ==
  IF ~f.readable THEN Raised("PermissionError") ELSE Returned(f.text)

(***************************************************************************)
(* SmartExtractor: the human-signal pattern set.                          *)
(***************************************************************************)
CommentMarkers == {"note", "todo", "fixme", "reminder", "xxx"}

HUMAN_PATTERNS ==
  {"need to", "don't forget", "remember to",
   "should be", "should have", "should fix", "should check", "should update",
   "follow up", "check with", "waiting on", "blocked by"}

\* self.human_pattern.search(line), re.IGNORECASE
human_pattern_search(line) ==
  LET l == Lower(line) IN
    \/ \E i \in 1..Len(l) :
         /\ At(l, i) = "#"
         /\ \E j \in (i + 1)..Len(l) :
              /\ \A k \in (i + 1)..(j - 1) : IsSpace(At(l, k))
              /\ \E m \in CommentMarkers : StartsAt(l, j, m)
    \/ \E p \in HUMAN_PATTERNS : Contains(l, p)
    \/ \E i \in 1..Len(l) :
         /\ StartsAt(l, i, "ask ")
         /\ i + 4 <= Len(l)
         /\ IsWordChar(At(l, i + 4))

ExtractedContent(filename, content, original_size, extracted_size, items_found) ==
  [filename |-> filename,
   meaningful_content |-> content,
   original_size |-> original_size,
   extracted_size |-> extracted_size,
   items_found |-> items_found,
   should_skip |-> FALSE,
   skip_reason |-> ""]

(***************************************************************************)
(* extract_from_log                                                        *)
(***************************************************************************)
\* variant: lines numbered from 0
LogStep_ZeroBased(line, line_num) ==
  IF human_pattern_search(line)
  THEN <<"Line " \o ToString(line_num - 1) \o ": " \o Strip(line)>>
  ELSE <<>>

\* the body of the loop for one line: what it appends to meaningful_lines
LogStep(line, line_num) ==
  IF human_pattern_search(line)
  THEN <<"Line " \o ToString(line_num) \o ": " \o Strip(line)>>
  ELSE <<>>

\* the loop over lines[lo..hi], numbered from 1
RECURSIVE LogScan(_, _, _)
LogScan(lines, lo, hi) ==
  IF lo > hi THEN <<>>
  ELSE IF lo = hi THEN LogStep(lines[lo], lo)
  ELSE LogScan(lines, lo, (lo + hi) \div 2) \o LogScan(lines, (lo + hi) \div 2 + 1, hi)

\* variant: the scanned count reported as the found count
LogItemsFound_LineCount(meaningful_lines, line_count) == line_count

LogItemsFound(meaningful_lines, line_count) == Len(meaningful_lines)

extract_from_log(filepath, f) ==
  LET rd == ReadIgnore(f) IN
    IF rd.exc # "" THEN Raised(rd.exc)
    ELSE
      LET lines == FileLines(rd.value[1])
          line_count == Len(lines)
          meaningful_lines == LogScan(lines, 1, Len(lines))
          content ==
            IF meaningful_lines # <<>>
            THEN "=== Human Comments Found in " \o BaseName(filepath) \o " ===\n"
                 \o "(Scanned " \o FormatThousands(line_count) \o " lines, found "
                 \o ToString(Len(meaningful_lines)) \o " with human content)\n\n"
                 \o Join("\n", meaningful_lines)
            ELSE "=== " \o BaseName(filepath) \o " ===\n"
                 \o "(Scanned " \o FormatThousands(line_count)
                 \o " lines, no human comments found)\n"
                 \o "This appears to be pure machine-generated logs."
      IN Returned(ExtractedContent(BaseName(filepath), content, StatSize(f), Utf8Len(content),
                                   LogItemsFound(meaningful_lines, line_count)))

(***************************************************************************)
(* extract_from_system_logs                                                *)
(***************************************************************************)
SeverityMarkers == {"[WARN", "[ERROR", "[FATAL", "[CRITICAL"}

\* variant: the human pattern is tried before the severity markers
SystemLogStep_HumanFirst(line, line_num) ==
  IF human_pattern_search(line)
  THEN <<"Line " \o ToString(line_num) \o " (human): " \o Strip(line)>>
  ELSE IF \E pattern \in SeverityMarkers : Contains(Upper(line), pattern)
  THEN <<"Line " \o ToString(line_num) \o ": " \o Strip(line)>>
  ELSE <<>>

\* the body of the loop for one line: what it appends to important_lines
SystemLogStep(line, line_num) ==
  IF \E pattern \in SeverityMarkers : Contains(Upper(line), pattern)
  THEN <<"Line " \o ToString(line_num) \o ": " \o Strip(line)>>
  ELSE IF human_pattern_search(line)
  THEN <<"Line " \o ToString(line_num) \o " (human): " \o Strip(line)>>
  ELSE <<>>

\* the loop over lines[lo..hi], numbered from 1
RECURSIVE SystemLogScan(_, _, _)
SystemLogScan(lines, lo, hi) ==
  IF lo > hi THEN <<>>
  ELSE IF lo = hi THEN SystemLogStep(lines[lo], lo)
  ELSE SystemLogScan(lines, lo, (lo + hi) \div 2)
       \o SystemLogScan(lines, (lo + hi) \div 2 + 1, hi)

extract_from_system_logs(filepath, f) ==
  LET rd == ReadIgnore(f) IN
    IF rd.exc # "" THEN Raised(rd.exc)
    ELSE
      LET lines == FileLines(rd.value[1])
          line_count == Len(lines)
          important_lines == SystemLogScan(lines, 1, Len(lines))
          content ==
            IF important_lines # <<>>
            THEN "=== Important Items from " \o BaseName(filepath) \o " ===\n"
                 \o "(Scanned " \o ToString(line_count) \o " lines, found "
                 \o ToString(Len(important_lines)) \o " important)\n\n"
                 \o Join("\n", important_lines)
            ELSE "=== " \o BaseName(filepath) \o " ===\n"
                 \o "(Scanned " \o ToString(line_count) \o " lines, all normal INFO logs)\n"
                 \o "No warnings, errors, or human comments found."
      IN Returned(ExtractedContent(BaseName(filepath), content, StatSize(f), Utf8Len(content),
                                   Len(important_lines)))

(***************************************************************************)
(* Steps that may raise: each yields [exc, out]; Chain runs them in order  *)
(* and stops at the first exception.                                       *)
(***************************************************************************)
Ok(out) == [exc |-> "", out |-> out]
Fail(e) == [exc |-> e, out |-> <<>>]

\* first, then rest unless first raised
Then(first, rest) ==
  IF first.exc # "" THEN first
  ELSE IF rest.exc # "" THEN rest
  ELSE Ok(first.out \o rest.out)

RECURSIVE ChainIn(_, _, _)
ChainIn(steps, lo, hi) ==
  IF lo > hi THEN Ok(<<>>)
  ELSE IF lo = hi THEN steps[lo]
  ELSE Then(ChainIn(steps, lo, (lo + hi) \div 2), ChainIn(steps, (lo + hi) \div 2 + 1, hi))

Chain(steps) == ChainIn(steps, 1, Len(steps))

(***************************************************************************)
(* csv.DictReader over unquoted text.  A row dict is a sequence of         *)
(* entries [key, val] in insertion order; key is <<name>> or <<>> for the  *)
(* None restkey; val is a string, None (restval) or a list of strings.     *)
(***************************************************************************)
CsvStr(x) == [t |-> "str", s |-> x, l |-> <<>>]
CsvNone == [t |-> "none", s |-> "", l |-> <<>>]
CsvList(xs) == [t |-> "list", s |-> "", l |-> xs]

\* one record of csv.reader: a blank line is the empty list
CsvRecord(line) ==
  LET body == IF Len(line) > 0 /\ At(line, Len(line)) = "\n"
              THEN SubSeq(line, 1, Len(line) - 1) ELSE line
  IN IF body = "" THEN <<>> ELSE Split(body, ",")

CsvRecords(text) ==
  LET lines == FileLines(text) IN [i \in 1..Len(lines) |-> CsvRecord(lines[i])]

\* reader.fieldnames or []
CsvHeaders(text) == IF CsvRecords(text) = <<>> THEN <<>> ELSE CsvRecords(text)[1]

\* d[key] = val
DictPut(d, key, val) ==
  IF \E i \in 1..Len(d) : d[i].key = key
  THEN [i \in 1..Len(d) |-> IF d[i].key = key THEN [key |-> key, val |-> val] ELSE d[i]]
  ELSE Append(d, [key |-> key, val |-> val])

RECURSIVE DictZip(_, _, _)
DictZip(fieldnames, row, i) ==
  IF i = 0 THEN <<>>
  ELSE DictPut(DictZip(fieldnames, row, i - 1), <<fieldnames[i]>>, CsvStr(row[i]))

RECURSIVE DictFill(_, _, _, _)
DictFill(d, fieldnames, from, to) ==
  IF from > to THEN d
  ELSE DictFill(DictPut(d, <<fieldnames[from]>>, CsvNone), fieldnames, from + 1, to)

\* DictReader.__next__ for one non-blank record
CsvRowDict(fieldnames, row) ==
  LET lf == Len(fieldnames)
      lr == Len(row)
      d == DictZip(fieldnames, row, IF lf < lr THEN lf ELSE lr)
  IN IF lf < lr THEN DictPut(d, <<>>, CsvList(SubSeq(row, lf + 1, lr)))
     ELSE IF lf > lr THEN DictFill(d, fieldnames, lr + 1, lf)
     ELSE d

\* the rows DictReader yields: blank records are skipped
CsvNotBlank(rec) == rec # <<>>

CsvRows(text) ==
  LET recs == CsvRecords(text)
      kept == IF recs = <<>> THEN <<>> ELSE SelectSeq(Tail(recs), CsvNotBlank)
  IN [k \in 1..Len(kept) |-> CsvRowDict(recs[1], kept[k])]

\* row.get(key, "")
RowGet(row, key) ==
  IF \E i \in 1..Len(row) : row[i].key = <<key>>
  THEN row[CHOOSE i \in 1..Len(row) : row[i].key = <<key>>].val
  ELSE CsvStr("")

\* repr(x) of a str without quotes or escapes in it
ReprStr(x) == "'" \o x \o "'"

\* str(x) in an f-string
CsvValStr(v) ==
  IF v.t = "str" THEN v.s
  ELSE IF v.t = "none" THEN "None"
  ELSE "[" \o Join(", ", [i \in 1..Len(v.l) |-> ReprStr(v.l[i])]) \o "]"

CsvValRepr(v) == IF v.t = "str" THEN ReprStr(v.s) ELSE CsvValStr(v)

\* str(row)
RowRepr(row) ==
  "{" \o Join(", ", [i \in 1..Len(row) |->
                       (IF row[i].key = <<>> THEN "None" ELSE ReprStr(row[i].key[1]))
                       \o ": " \o CsvValRepr(row[i].val)]) \o "}"

(***************************************************************************)
(* extract_from_csv_notes                                                  *)
(***************************************************************************)
NoteColumnNames == {"notes", "note", "comments", "comment", "description"}

\* h.lower() in ["notes", "note", "comments", "comment", "description"]
IsNoteColumn(h) == Lower(h) \in NoteColumnNames

\* variant: every column counts as a notes column
NoteColumns_All(headers) == headers

\* the columns of headers, in order, whose lower-cased name is note-like
NoteColumns(headers) == SelectSeq(headers, IsNoteColumn)

\* the body of "for col in note_columns" for one row and one column
CsvNoteStep(row, col, headers) ==
  LET value == RowGet(row, col) IN
    IF value.t # "str" THEN Fail("AttributeError")
    ELSE IF Strip(value.s) = "" THEN Ok(<<>>)
    ELSE LET context == IF headers # <<>> THEN CsvValStr(RowGet(row, headers[1])) ELSE ""
         IN Ok(<<"- [" \o context \o "] " \o Strip(value.s)>>)

CsvRowNotes(row, note_columns, headers) ==
  Chain([c \in 1..Len(note_columns) |-> CsvNoteStep(row, note_columns[c], headers)])

extract_from_csv_notes(filepath, f) ==
  LET rd == ReadStrict(f) IN
    IF rd.exc # "" THEN Raised(rd.exc)
    ELSE
      LET headers == CsvHeaders(rd.value[1])
          rows == CsvRows(rd.value[1])
          note_columns == NoteColumns(headers)
          row_count == Len(rows)
          scan == Chain([r \in 1..Len(rows) |-> CsvRowNotes(rows[r], note_columns, headers)])
          notes == scan.out
          content ==
            IF notes # <<>>
            THEN "=== Notes from " \o BaseName(filepath) \o " ===\n"
                 \o "(Scanned " \o ToString(row_count) \o " rows, found "
                 \o ToString(Len(notes)) \o " notes)\n\n"
                 \o Join("\n", notes)
            ELSE "=== " \o BaseName(filepath) \o " ===\n"
                 \o "(Scanned " \o ToString(row_count) \o " rows, no notes column found)\n"
                 \o "Columns: " \o Join(", ", headers)
      IN IF scan.exc # "" THEN Raised(scan.exc)
         ELSE Returned(ExtractedContent(BaseName(filepath), content, StatSize(f), Utf8Len(content),
                                        Len(notes)))

(***************************************************************************)
(* JSON documents as json.load builds them: a value is [t, s, n, items]    *)
(* with t the Python type; items holds the elements of a list, or the      *)
(* [k, v] entries of a dict in insertion order.                            *)
(***************************************************************************)
JStr(x) == [t |-> "str", s |-> x, n |-> 0, items |-> <<>>]
JNum(x) == [t |-> "int", s |-> "", n |-> x, items |-> <<>>]
JBool(b) == [t |-> "bool", s |-> "", n |-> IF b THEN 1 ELSE 0, items |-> <<>>]
JNull == [t |-> "none", s |-> "", n |-> 0, items |-> <<>>]
JArr(xs) == [t |-> "list", s |-> "", n |-> 0, items |-> xs]
JObj(es) == [t |-> "dict", s |-> "", n |-> 0, items |-> es]
KV(k, v) == [k |-> k, v |-> v]

\* key in d, for a dict d
DictHas(d, key) == d.t = "dict" /\ \E i \in 1..Len(d.items) : d.items[i].k = key

\* d.get(key, default), for a dict d
DictGet(d, key, default) ==
  IF DictHas(d, key)
  THEN d.items[CHOOSE i \in 1..Len(d.items) : d.items[i].k = key].v
  ELSE default

DictKeys(d) == [i \in 1..Len(d.items) |-> d.items[i].k]

\* v == "literal"
IsStr(v, lit) == v.t = "str" /\ v.s = lit

\* repr(v) and str(v); strings carry no quotes or escapes
RECURSIVE PyRepr(_)
PyRepr(v) ==
  IF v.t = "str" THEN ReprStr(v.s)
  ELSE IF v.t = "int" THEN ToString(v.n)
  ELSE IF v.t = "bool" THEN (IF v.n = 1 THEN "True" ELSE "False")
  ELSE IF v.t = "none" THEN "None"
  ELSE IF v.t = "list"
  THEN "[" \o Join(", ", [i \in 1..Len(v.items) |-> PyRepr(v.items[i])]) \o "]"
  ELSE "{" \o Join(", ", [i \in 1..Len(v.items) |->
            ReprStr(v.items[i].k) \o ": " \o PyRepr(v.items[i].v)]) \o "}"

PyStr(v) == IF v.t = "str" THEN v.s ELSE PyRepr(v)

Spaces(n) == SubSeq("                                ", 1, n)

\* the escape json.dumps writes for one character (ensure_ascii)
JsonEscapeChar(c) ==
  IF c = "\"" THEN "\\\""
  ELSE IF c = "\\" THEN "\\\\"
  ELSE IF c = "\n" THEN "\\n"
  ELSE IF c = "\t" THEN "\\t"
  ELSE IF c = "ﾀ" THEN "\\uff80"
  ELSE c

JsonQuote(x) == "\"" \o Join("", [i \in 1..Len(x) |-> JsonEscapeChar(At(x, i))]) \o "\""

\* json.dumps(v, indent=2) at nesting depth "level"
RECURSIVE JsonDumpsAt(_, _)
JsonDumpsAt(v, level) ==
  IF v.t = "str" THEN JsonQuote(v.s)
  ELSE IF v.t = "int" THEN ToString(v.n)
  ELSE IF v.t = "bool" THEN (IF v.n = 1 THEN "true" ELSE "false")
  ELSE IF v.t = "none" THEN "null"
  ELSE IF v.t = "list"
  THEN IF v.items = <<>> THEN "[]"
       ELSE "[\n"
            \o Join(",\n", [i \in 1..Len(v.items) |->
                 Spaces(2 * (level + 1)) \o JsonDumpsAt(v.items[i], level + 1)])
            \o "\n" \o Spaces(2 * level) \o "]"
  ELSE IF v.items = <<>> THEN "{}"
       ELSE "{\n"
            \o Join(",\n", [i \in 1..Len(v.items) |->
                 Spaces(2 * (level + 1)) \o JsonQuote(v.items[i].k) \o ": "
                 \o JsonDumpsAt(v.items[i].v, level + 1)])
            \o "\n" \o Spaces(2 * level) \o "}"

json_dumps(v) == JsonDumpsAt(v, 0)

(***************************************************************************)
(* extract_from_json: the blocks of the API-snapshot branch.  Each yields  *)
(* the text it appends to content, or the exception it raises.             *)
(***************************************************************************)
\* x.get(...) on a value that is not a dict
NeedsDict(v) == v.t # "dict"

JsonMetadataBlock(data) ==
  IF ~DictHas(data, "test_snapshots") THEN Ok(<<>>)
  ELSE LET meta == DictGet(data, "test_snapshots", JNull) IN
    IF NeedsDict(meta) THEN Fail("AttributeError")
    ELSE Ok(<<"--- Metadata ---\n",
              "Description: " \o PyStr(DictGet(meta, "description", JStr("N/A"))) \o "\n",
              "Environment: " \o PyStr(DictGet(meta, "environment", JStr("N/A"))) \o "\n",
              "Generated: " \o PyStr(DictGet(meta, "generated_at", JStr("N/A"))) \o "\n\n">>)

JsonEndpointLine(snapshot) ==
  IF NeedsDict(snapshot) THEN Fail("AttributeError")
  ELSE Ok(<<"- " \o PyStr(DictGet(snapshot, "endpoint", JStr("")))
            \o " [" \o PyStr(DictGet(snapshot, "status", JStr(""))) \o "]\n">>)

JsonEndpointsBlock(snapshots) ==
  Chain(<<Ok(<<"--- API Endpoints ---\n">>)>>
        \o [i \in 1..Len(snapshots) |-> JsonEndpointLine(snapshots[i])])

JsonRoleLine(role) ==
  IF NeedsDict(role) THEN Fail("AttributeError")
  ELSE Ok(<<"- " \o PyStr(DictGet(role, "name", JNull)) \o ": "
            \o PyStr(DictGet(role, "description", JNull)) \o " ("
            \o PyStr(DictGet(role, "user_count", JNull)) \o " users)\n">>)

\* "for role in roles": the values the loop variable takes
JsonIterate(v) ==
  IF v.t = "list" THEN Ok(v.items)
  ELSE IF v.t = "dict" THEN Ok([i \in 1..Len(v.items) |-> JStr(v.items[i].k)])
  ELSE IF v.t = "str" THEN Ok([i \in 1..Len(v.s) |-> JStr(At(v.s, i))])
  ELSE Fail("TypeError")

JsonRolesOf(snapshot) ==
  IF ~IsStr(DictGet(snapshot, "endpoint", JNull), "GET /api/roles") THEN Ok(<<>>)
  ELSE LET response == DictGet(snapshot, "response", JObj(<<>>)) IN
    IF NeedsDict(response) THEN Fail("AttributeError")
    ELSE LET roles == JsonIterate(DictGet(response, "data", JArr(<<>>))) IN
      IF roles.exc # "" THEN roles
      ELSE Chain(<<Ok(<<"\n--- Roles Defined ---\n">>)>>
                 \o [i \in 1..Len(roles.out) |-> JsonRoleLine(roles.out[i])])

JsonErrorOf(snapshot) ==
  LET resp == DictGet(snapshot, "response", JObj(<<>>)) IN
    IF resp.t = "dict" /\ DictHas(resp, "error")
    THEN LET err == DictGet(resp, "error", JNull) IN
           IF NeedsDict(err) THEN Fail("AttributeError")
           ELSE Ok(<<"- " \o PyStr(DictGet(err, "code", JNull)) \o ": "
                     \o PyStr(DictGet(err, "message", JNull)) \o "\n">>)
    ELSE Ok(<<>>)

JsonCheckLine(entry) ==
  IF NeedsDict(entry.v) THEN Fail("AttributeError")
  ELSE Ok(<<"- " \o entry.k \o ": " \o PyStr(DictGet(entry.v, "status", JNull)) \o " ("
            \o PyStr(DictGet(entry.v, "latency_ms", JNull)) \o "ms)\n">>)

JsonHealthOf(snapshot) ==
  IF ~IsStr(DictGet(snapshot, "endpoint", JNull), "GET /api/health") THEN Ok(<<>>)
  ELSE LET resp == DictGet(snapshot, "response", JObj(<<>>)) IN
    IF NeedsDict(resp) THEN Fail("AttributeError")
    ELSE LET checks == DictGet(resp, "checks", JObj(<<>>)) IN
      IF NeedsDict(checks) THEN Fail("AttributeError")
      ELSE Chain(<<Ok(<<"\n--- Health Check Info ---\n",
                        "Version: " \o PyStr(DictGet(resp, "version", JNull)) \o "\n">>)>>
                 \o [i \in 1..Len(checks.items) |-> JsonCheckLine(checks.items[i])])

\* whether the permissions loop stops at this snapshot
JsonHasPermissions(snapshot) ==
  LET resp == DictGet(snapshot, "response", JObj(<<>>)) IN
    /\ resp.t = "dict"
    /\ DictGet(resp, "data", JObj(<<>>)).t = "dict"
    /\ DictHas(DictGet(resp, "data", JObj(<<>>)), "permissions")

\* ', '.join(perms)
JsonJoinPerms(perms) ==
  LET it == JsonIterate(perms) IN
    IF it.exc # "" THEN it
    ELSE IF \E i \in 1..Len(it.out) : it.out[i].t # "str" THEN Fail("TypeError")
    ELSE Ok(<<Join(", ", [i \in 1..Len(it.out) |-> it.out[i].s])>>)

\* variant: the loop has no break, so the last permissions list is the one rendered
JsonPermissionsBlock_Last(snapshots) ==
  LET hits == {i \in 1..Len(snapshots) : JsonHasPermissions(snapshots[i])} IN
    IF hits = {} THEN Ok(<<>>)
    ELSE LET last == CHOOSE i \in hits : \A j \in hits : j <= i
             user_data == DictGet(DictGet(snapshots[last], "response", JObj(<<>>)),
                                  "data", JObj(<<>>))
             joined == JsonJoinPerms(DictGet(user_data, "permissions", JArr(<<>>)))
         IN IF joined.exc # "" THEN joined
            ELSE Ok(<<"\n--- Permissions Structure ---\n",
                      "Permissions: " \o joined.out[1] \o "\n">>)

JsonPermissionsBlock(snapshots) ==
  LET hits == {i \in 1..Len(snapshots) : JsonHasPermissions(snapshots[i])} IN
    IF hits = {} THEN Ok(<<>>)
    ELSE LET first == CHOOSE i \in hits : \A j \in hits : i <= j
             user_data == DictGet(DictGet(snapshots[first], "response", JObj(<<>>)),
                                  "data", JObj(<<>>))
             joined == JsonJoinPerms(DictGet(user_data, "permissions", JArr(<<>>)))
         IN IF joined.exc # "" THEN joined
            ELSE Ok(<<"\n--- Permissions Structure ---\n",
                      "Permissions: " \o joined.out[1] \o "\n">>)

JsonSnapshotBranch(data) ==
  LET snapshots == DictGet(data, "snapshots", JNull).items IN
    Chain(<<JsonMetadataBlock(data),
            JsonEndpointsBlock(snapshots)>>
          \o [i \in 1..Len(snapshots) |-> JsonRolesOf(snapshots[i])]
          \o <<Ok(<<"\n--- Error Codes ---\n">>)>>
          \o [i \in 1..Len(snapshots) |-> JsonErrorOf(snapshots[i])]
          \o [i \in 1..Len(snapshots) |-> JsonHealthOf(snapshots[i])]
          \o <<JsonPermissionsBlock(snapshots)>>)

(***************************************************************************)
(* The JSON documents of the model.  A file holds a document when its text *)
(* is the document's serialization; any other text is not JSON.            *)
(***************************************************************************)
RolesSnapshot ==
  JObj(<<KV("endpoint", JStr("GET /api/roles")), KV("status", JNum(200)),
         KV("response", JObj(<<KV("data", JArr(<<
            JObj(<<KV("name", JStr("admin")), KV("description", JStr("all")),
                   KV("user_count", JNum(2))>>)>>))>>))>>)

ErrorSnapshot ==
  JObj(<<KV("endpoint", JStr("GET /api/x")), KV("status", JNum(404)),
         KV("response", JObj(<<KV("error",
            JObj(<<KV("code", JStr("E404")), KV("message", JStr("missing"))>>))>>))>>)

HealthSnapshot ==
  JObj(<<KV("endpoint", JStr("GET /api/health")), KV("status", JNum(200)),
         KV("response", JObj(<<KV("version", JStr("1.2")),
            KV("checks", JObj(<<KV("db",
               JObj(<<KV("status", JStr("ok")), KV("latency_ms", JNum(3))>>))>>))>>))>>)

UserSnapshot(perms) ==
  JObj(<<KV("endpoint", JStr("GET /api/me")),
         KV("response", JObj(<<KV("data", JObj(<<KV("permissions", perms)>>))>>))>>)

SnapshotDoc(snapshots) ==
  JObj(<<KV("test_snapshots", JObj(<<KV("description", JStr("nightly")),
                                      KV("environment", JStr("staging"))>>)),
         KV("snapshots", JArr(snapshots))>>)

JsonDocs ==
  {SnapshotDoc(<<RolesSnapshot, ErrorSnapshot>>),
   SnapshotDoc(<<HealthSnapshot, UserSnapshot(JArr(<<JStr("read"), JStr("write")>>)),
                 UserSnapshot(JArr(<<JStr("admin")>>))>>),
   JObj(<<KV("snapshots", JArr(<<JStr("not a snapshot")>>))>>),
   JObj(<<KV("snapshots", JArr(<<>>))>>),
   JObj(<<KV("snapshots", JStr("none")), KV("name", JStr("cafﾀ"))>>),
   JObj(<<KV("a", JNum(1)), KV("b", JObj(<<KV("c", JArr(<<JNum(2), JNull>>))>>))>>),
   JObj(<<>>),
   JArr(<<JObj(<<KV("id", JNum(1))>>), JObj(<<KV("id", JNum(2))>>), JBool(TRUE)>>),
   JArr(<<JStr("snapshots")>>),
   JArr([i \in 1..5 |-> JObj(<<KV("id", JNum(i))>>)]),
   JArr(<<>>),
   JStr("hello"),
   JStr("my snapshots"),
   JNum(42),
   JNull}

\* texts that are not JSON
JsonGarbage == {"", "{not json", "{\"a\": 1,}"}

\* json.load(f) on the decoded text of a file
json_load(text) ==
  IF \E d \in JsonDocs : json_dumps(d) = text
  THEN Returned(CHOOSE d \in JsonDocs : json_dumps(d) = text)
  ELSE Raised("JSONDecodeError")

(***************************************************************************)
(* extract_from_json                                                       *)
(***************************************************************************)
\* "snapshots" in data
JsonContainsSnapshots(data) ==
  IF data.t = "dict" THEN Ok(<<DictHas(data, "snapshots")>>)
  ELSE IF data.t = "list"
  THEN Ok(<<\E i \in 1..Len(data.items) : IsStr(data.items[i], "snapshots")>>)
  ELSE IF data.t = "str" THEN Ok(<<Contains(data.s, "snapshots")>>)
  ELSE Fail("TypeError")

\* the first slice list(data.keys())[:10]
FirstTen(keys) == SubSeq(keys, 1, IF Len(keys) < 10 THEN Len(keys) ELSE 10)

InvalidJsonSize(content) == 0

\* the part of extract_from_json that follows a successful json.load
JsonExtractBody(name, f, data) ==
  LET header == "=== Extracted from " \o name \o " ===\n\n"
      has == JsonContainsSnapshots(data)
      Result(content, items_found) ==
        Returned(ExtractedContent(name, content, StatSize(f), Utf8Len(content), items_found))
  IN
    IF has.exc # "" THEN Raised(has.exc)
    ELSE IF has.out[1] /\ data.t # "dict" THEN Raised("AttributeError")
    ELSE IF has.out[1] /\ DictGet(data, "snapshots", JNull).t = "list"
    THEN LET branch == JsonSnapshotBranch(data) IN
           IF branch.exc # "" THEN Raised(branch.exc)
           ELSE Result(header \o Join("", branch.out),
                       Len(DictGet(data, "snapshots", JNull).items))
    ELSE IF data.t = "dict"
    THEN Result(header
                \o "Type: Object with " \o ToString(Len(data.items)) \o " keys\n"
                \o "Keys: " \o Join(", ", FirstTen(DictKeys(data))) \o "\n\n"
                \o "--- Full Content ---\n"
                \o json_dumps(data),
                Len(data.items))
    ELSE IF data.t = "list"
    THEN Result(header
                \o "Type: Array with " \o ToString(Len(data.items)) \o " items\n"
                \o "--- Full Content ---\n"
                \o json_dumps(data),
                Len(data.items))
    ELSE Result(header, 0)

\* variant: the first element of a top-level array is left out
extract_from_json_SkipsFirst(filepath, f) ==
  LET rd == ReadStrict(f) IN
    IF rd.exc # "" THEN Raised(rd.exc)
    ELSE LET loaded == json_load(rd.value[1]) IN
      IF loaded.exc # ""
      THEN Returned(ExtractedContent(BaseName(filepath), "Invalid JSON file", StatSize(f),
                                     InvalidJsonSize("Invalid JSON file"), 0))
      ELSE JsonExtractBody(BaseName(filepath), f,
                           IF loaded.value[1].t = "list" /\ loaded.value[1].items # <<>>
                           THEN [loaded.value[1] EXCEPT !.items = Tail(@)]
                           ELSE loaded.value[1])

extract_from_json(filepath, f) ==
  LET rd == ReadStrict(f) IN
    IF rd.exc # "" THEN Raised(rd.exc)
    ELSE LET loaded == json_load(rd.value[1]) IN
      IF loaded.exc # ""
      THEN Returned(ExtractedContent(BaseName(filepath), "Invalid JSON file", StatSize(f),
                                     InvalidJsonSize("Invalid JSON file"), 0))
      ELSE JsonExtractBody(BaseName(filepath), f, loaded.value[1])

(***************************************************************************)
(* base64.b64encode over the bytes of a file.                              *)
(***************************************************************************)
B64Alphabet == "ABCDEFGHIJKLMNOPQRSTUVWXYZabcdefghijklmnopqrstuvwxyz0123456789+/"

B64Char(n) == SubSeq(B64Alphabet, n + 1, n + 1)

\* the UTF-8 bytes of one character of the basic multilingual plane
CharUtf8(c) ==
  LET n == Ord(c) IN
    IF n < 128 THEN <<n>>
    ELSE IF n < 2048 THEN <<192 + (n \div 64), 128 + (n % 64)>>
    ELSE <<224 + (n \div 4096), 128 + ((n \div 64) % 64), 128 + (n % 64)>>

RECURSIVE Utf8Bytes(_, _, _)
Utf8Bytes(s, lo, hi) ==
  IF lo > hi THEN <<>>
  ELSE IF lo = hi THEN CharUtf8(At(s, lo))
  ELSE LET mid == (lo + hi) \div 2 IN Utf8Bytes(s, lo, mid) \o Utf8Bytes(s, mid + 1, hi)

\* f.read() in binary mode: the text's bytes, then the undecodable ones (0xFF)
FileBytes(f) == Utf8Bytes(f.text, 1, Len(f.text)) \o [i \in 1..f.junk |-> 255]

RECURSIVE B64Encode(_)
B64Encode(bytes) ==
  IF bytes = <<>> THEN ""
  ELSE IF Len(bytes) = 1
  THEN B64Char(bytes[1] \div 4) \o B64Char((bytes[1] % 4) * 16) \o "=="
  ELSE IF Len(bytes) = 2
  THEN B64Char(bytes[1] \div 4) \o B64Char((bytes[1] % 4) * 16 + bytes[2] \div 16)
       \o B64Char((bytes[2] % 16) * 4) \o "="
  ELSE B64Char(bytes[1] \div 4) \o B64Char((bytes[1] % 4) * 16 + bytes[2] \div 16)
       \o B64Char((bytes[2] % 16) * 4 + bytes[3] \div 64) \o B64Char(bytes[3] % 64)
       \o B64Encode(SubSeq(bytes, 4, Len(bytes)))

(***************************************************************************)
(* FileParser                                                              *)
(***************************************************************************)
TEXT_EXTENSIONS == {".md", ".txt"}
CODE_EXTENSIONS == {".py", ".tsx", ".ts", ".js", ".sql"}
LOG_EXTENSIONS == {".log"}
IMAGE_EXTENSIONS == {".jpg", ".jpeg", ".png", ".gif", ".webp"}

SMART_EXTRACT_FILES ==
  [n \in {"api-test-9-25.log", "system_logs.txt", "api_responses_sample.json",
          "dependencies_audit.csv"} |->
     IF n = "api-test-9-25.log" THEN "log"
     ELSE IF n = "system_logs.txt" THEN "system_log"
     ELSE IF n = "api_responses_sample.json" THEN "json"
     ELSE "csv_notes"]

\* the directory FileParser is constructed on
DesktopPath == <<"desktop">>

\* str(path)
PathStr(parts) == Join("/", parts)

\* filepath.name
PathName(parts) == parts[Len(parts)]

\* filepath.suffix
PathSuffix(name) ==
  LET i == RFind(name, ".") IN
    IF i > 1 /\ i < Len(name) THEN SubSeq(name, i, Len(name)) ELSE ""

ParsedFile(path, file_type, content, is_code, image_base64) ==
  [filename |-> PathName(path),
   filepath |-> PathStr(path),
   file_type |-> file_type,
   content |-> content,
   is_code |-> is_code,
   image_base64 |-> image_base64]

\* outcome of a handler: the record it returns, or the exception it raises
Handled(handler, out) ==
  [exc |-> out.exc, value |-> out.value, handler |-> handler]

\* variant: every extracted file typed as a log
SmartExtractFileType_AlwaysLog(extract_type) == "log"

SmartExtractFileType(extract_type) == extract_type

\* lines 109-116: the record built from the extractor's result
SmartExtractRecord(path, extract_type, result) ==
  IF result.exc # "" THEN Raised(result.exc)
  ELSE Returned(ParsedFile(path, SmartExtractFileType(extract_type),
                           result.value[1].meaningful_content, FALSE, <<>>))

_smart_extract(path, f, extract_type) ==
  SmartExtractRecord(path, extract_type,
    IF extract_type = "log" THEN extract_from_log(PathStr(path), f)
    ELSE IF extract_type = "system_log" THEN extract_from_system_logs(PathStr(path), f)
    ELSE IF extract_type = "json" THEN extract_from_json(PathStr(path), f)
    ELSE IF extract_type = "csv_notes" THEN extract_from_csv_notes(PathStr(path), f)
    ELSE extract_from_log(PathStr(path), f))

_parse_text_file(path, f) ==
  LET rd == ReadStrict(f) IN
    IF rd.exc # "" THEN Raised(rd.exc)
    ELSE Returned(ParsedFile(path, "text", rd.value[1], FALSE, <<>>))

_parse_code_file(path, f) ==
  LET rd == ReadStrict(f) IN
    IF rd.exc # "" THEN Raised(rd.exc)
    ELSE Returned(ParsedFile(path, "code", rd.value[1], TRUE, <<>>))

_parse_csv_file(path, f) ==
  LET rd == ReadStrict(f) IN
    IF rd.exc # "" THEN Raised(rd.exc)
    ELSE
      LET headers == CsvHeaders(rd.value[1])
          rows == CsvRows(rd.value[1])
          content ==
            "CSV File: " \o PathName(path) \o "\n"
            \o "Columns: " \o Join(", ", headers) \o "\n"
            \o "Rows: " \o ToString(Len(rows)) \o "\n\n"
            \o Join("", [i \in 1..Len(rows) |-> RowRepr(rows[i]) \o "\n"])
      IN Returned(ParsedFile(path, "csv", content, FALSE, <<>>))

\* variant: a document that does not parse is dropped
_parse_json_file_Lenient(path, f) ==
  LET rd == ReadStrict(f) IN
    IF rd.exc # "" THEN Raised(rd.exc)
    ELSE LET loaded == json_load(rd.value[1]) IN
      IF loaded.exc # "" THEN [exc |-> "", value |-> <<>>]
      ELSE Returned(ParsedFile(path, "json", json_dumps(loaded.value[1]), FALSE, <<>>))

_parse_json_file(path, f) ==
  LET rd == ReadStrict(f) IN
    IF rd.exc # "" THEN Raised(rd.exc)
    ELSE LET loaded == json_load(rd.value[1]) IN
      IF loaded.exc # "" THEN Raised(loaded.exc)
      ELSE Returned(ParsedFile(path, "json", json_dumps(loaded.value[1]), FALSE, <<>>))

\* variant: the default media type for every extension
MediaType_AlwaysJpeg(ext) == "image/jpeg"

MediaType(ext) ==
  IF ext \in {".jpg", ".jpeg"} THEN "image/jpeg"
  ELSE IF ext = ".png" THEN "image/png"
  ELSE IF ext = ".gif" THEN "image/gif"
  ELSE IF ext = ".webp" THEN "image/webp"
  ELSE "image/jpeg"

_parse_image_file(path, f) ==
  IF ~f.readable THEN Raised("PermissionError")
  ELSE Returned(ParsedFile(path, "image", "[Image file: " \o PathName(path) \o "]", FALSE,
                  <<"data:" \o MediaType(Lower(PathSuffix(PathName(path))))
                    \o ";base64," \o B64Encode(FileBytes(f))>>))

\* variant: no hidden-file check
IsHiddenName_Never(filename) == FALSE

\* filename.startswith(".")
IsHiddenName(filename) == StartsWith(filename, ".")

\* variant: the fallback read is not guarded
RouteByExtension_Unguarded(path, f, ext) ==
  IF ext \in TEXT_EXTENSIONS THEN Handled("_parse_text_file", _parse_text_file(path, f))
  ELSE IF ext \in CODE_EXTENSIONS THEN Handled("_parse_code_file", _parse_code_file(path, f))
  ELSE IF ext = ".csv" THEN Handled("_parse_csv_file", _parse_csv_file(path, f))
  ELSE IF ext = ".json" THEN Handled("_parse_json_file", _parse_json_file(path, f))
  ELSE IF ext \in LOG_EXTENSIONS THEN Handled("_smart_extract:log", _smart_extract(path, f, "log"))
  ELSE IF ext \in IMAGE_EXTENSIONS THEN Handled("_parse_image_file", _parse_image_file(path, f))
  ELSE Handled("try:_parse_text_file", _parse_text_file(path, f))

\* the branch of parse_file that dispatches on the extension
RouteByExtension(path, f, ext) ==
  IF ext \in TEXT_EXTENSIONS THEN Handled("_parse_text_file", _parse_text_file(path, f))
  ELSE IF ext \in CODE_EXTENSIONS THEN Handled("_parse_code_file", _parse_code_file(path, f))
  ELSE IF ext = ".csv" THEN Handled("_parse_csv_file", _parse_csv_file(path, f))
  ELSE IF ext = ".json" THEN Handled("_parse_json_file", _parse_json_file(path, f))
  ELSE IF ext \in LOG_EXTENSIONS THEN Handled("_smart_extract:log", _smart_extract(path, f, "log"))
  ELSE IF ext \in IMAGE_EXTENSIONS THEN Handled("_parse_image_file", _parse_image_file(path, f))
  ELSE LET r == _parse_text_file(path, f) IN
         IF r.exc # "" THEN Handled("try:_parse_text_file", [exc |-> "", value |-> <<>>])
         ELSE Handled("try:_parse_text_file", r)

\* variant: the extension is consulted before the extraction-mode table
parse_file_ExtensionFirst(path, f) ==
  LET filename == PathName(path)
      ext == Lower(PathSuffix(filename))
  IN IF IsHiddenName(filename) THEN Handled("", [exc |-> "", value |-> <<>>])
     ELSE IF ext \in TEXT_EXTENSIONS \cup CODE_EXTENSIONS \cup LOG_EXTENSIONS
                     \cup IMAGE_EXTENSIONS \cup {".csv", ".json"}
     THEN RouteByExtension(path, f, ext)
     ELSE IF filename \in DOMAIN SMART_EXTRACT_FILES
     THEN Handled("_smart_extract:" \o SMART_EXTRACT_FILES[filename],
                  _smart_extract(path, f, SMART_EXTRACT_FILES[filename]))
     ELSE RouteByExtension(path, f, ext)

\* parse_file: value is <<record>>, or <<>> when it returns None
parse_file(path, f) ==
  LET filename == PathName(path)
      ext == Lower(PathSuffix(filename))
  IN IF IsHiddenName(filename) THEN Handled("", [exc |-> "", value |-> <<>>])
     ELSE IF filename \in DOMAIN SMART_EXTRACT_FILES
     THEN Handled("_smart_extract:" \o SMART_EXTRACT_FILES[filename],
                  _smart_extract(path, f, SMART_EXTRACT_FILES[filename]))
     ELSE RouteByExtension(path, f, ext)

(***************************************************************************)
(* Directory listing and its order.                                        *)
(***************************************************************************)
\* path.iterdir(): the immediate children, each with its path
Iterdir(path, children) ==
  {[path |-> Append(path, c.name), entry |-> c.entry] : c \in children}

\* a < b for paths: the tuples of their parts compared part by part
RECURSIVE PathLessFrom(_, _, _)
PathLessFrom(a, b, i) ==
  IF i > Len(b) THEN FALSE
  ELSE IF i > Len(a) THEN TRUE
  ELSE IF a[i] = b[i] THEN PathLessFrom(a, b, i + 1)
  ELSE StrLess(a[i], b[i])

PathLess(a, b) == PathLessFrom(a, b, 1)

\* the orders in which a listing of the set S can arrive
Orders(S) ==
  {o \in [1..Cardinality(S) -> S] : \A i, j \in 1..Cardinality(S) : i # j => o[i] # o[j]}

\* insert x into the sorted sequence seq, after the elements not greater
Insert(seq, x) ==
  LET k == Cardinality({i \in 1..Len(seq) : ~PathLess(x.path, seq[i].path)}) IN
    SubSeq(seq, 1, k) \o <<x>> \o SubSeq(seq, k + 1, Len(seq))

\* variant: the listing used in the order it arrives
Sorted_Unsorted(seq) == seq

\* sorted(listing)
RECURSIVE Sorted(_)
Sorted(seq) ==
  IF seq = <<>> THEN <<>>
  ELSE Insert(Sorted(SubSeq(seq, 1, Len(seq) - 1)), seq[Len(seq)])

(***************************************************************************)
(* The index writer, VectorStore.store (vector_store.py), over the         *)
(* ProcessedResult of the language-model stage (llm_processor.py).  Notes  *)
(* and events are the dicts json.loads returned.  The three lists of a     *)
(* store call are read off the sequence of its appends, in program order.  *)
(***************************************************************************)
ProcessedResult(topics, calendar_events, notes) ==
  [topics |-> topics, calendar_events |-> calendar_events, notes |-> notes]

\* list.append(item) on one of documents, metadatas, ids
ListAppend(list, item) == [list |-> list, item |-> item]

\* the items appended to one list, in order
ListOf(log, list) ==
  LET sel == SelectSeq(log, LAMBDA a : a.list = list) IN
    [k \in 1..Len(sel) |-> sel[k].item]

\* source_file.lower().endswith((".jpg", ".jpeg", ".png", ".gif", ".webp"))
IsImageSource(source_file) ==
  \E ext \in {".jpg", ".jpeg", ".png", ".gif", ".webp"} :
     /\ Len(source_file) >= Len(ext)
     /\ SubSeq(Lower(source_file), Len(source_file) - Len(ext) + 1, Len(source_file)) = ext

\* "not v" for a value json.loads returned
JsonFalsy(v) ==
  \/ v.t = "none"
  \/ v.t = "str" /\ v.s = ""
  \/ v.t \in {"int", "bool"} /\ v.n = 0
  \/ v.t \in {"list", "dict"} /\ v.items = <<>>

\* variant: the id is appended before the blank check
NoteStep_IdFirst(i, note) ==
  LET content == DictGet(note, "content", JStr(""))
      source_file == DictGet(note, "source_file", JStr(""))
      tags == JsonIterate(DictGet(note, "tags", JArr(<<>>)))
  IN
    IF note.t # "dict" \/ content.t # "str" THEN Fail("AttributeError")
    ELSE IF Strip(content.s) = "" THEN Ok(<<ListAppend("ids", "note_" \o ToString(i))>>)
    ELSE IF tags.exc # "" \/ \E k \in 1..Len(tags.out) : tags.out[k].t # "str"
    THEN Fail("TypeError")
    ELSE IF source_file.t # "str" THEN Fail("AttributeError")
    ELSE Ok(<<ListAppend("ids", "note_" \o ToString(i)),
              ListAppend("documents", content.s),
              ListAppend("metadatas",
                [type |-> JStr("note"),
                 topic |-> DictGet(note, "topic", JStr("uncategorized")),
                 source_file |-> DictGet(note, "source_file", JStr("unknown")),
                 tags |-> JStr(Join(",", [k \in 1..Len(tags.out) |-> tags.out[k].s])),
                 is_image |-> JStr(IF IsImageSource(source_file.s) THEN "true" ELSE "false")])>>)

\* lines 40-62: one pass of the notes loop, for enumerate index i
NoteStep(i, note) ==
  LET content == DictGet(note, "content", JStr(""))
      source_file == DictGet(note, "source_file", JStr(""))
      tags == JsonIterate(DictGet(note, "tags", JArr(<<>>)))
  IN
    IF note.t # "dict" \/ content.t # "str" THEN Fail("AttributeError")
    ELSE IF Strip(content.s) = "" THEN Ok(<<>>)
    ELSE IF tags.exc # "" \/ \E k \in 1..Len(tags.out) : tags.out[k].t # "str"
    THEN Fail("TypeError")
    ELSE IF source_file.t # "str" THEN Fail("AttributeError")
    ELSE Ok(<<ListAppend("documents", content.s),
              ListAppend("metadatas",
                [type |-> JStr("note"),
                 topic |-> DictGet(note, "topic", JStr("uncategorized")),
                 source_file |-> DictGet(note, "source_file", JStr("unknown")),
                 tags |-> JStr(Join(",", [k \in 1..Len(tags.out) |-> tags.out[k].s])),
                 is_image |-> JStr(IF IsImageSource(source_file.s) THEN "true" ELSE "false")]),
              ListAppend("ids", "note_" \o ToString(i))>>)

\* lines 66-86: one pass of the events loop, for enumerate index i
EventStep(i, event) ==
  LET title == DictGet(event, "title", JStr(""))
      description == DictGet(event, "description", JStr(""))
      time == DictGet(event, "time", JStr(""))
  IN
    IF event.t # "dict" THEN Fail("AttributeError")
    ELSE \* content = f"{title}. {description}".strip()
      LET content == Strip(PyStr(title) \o ". " \o PyStr(description)) IN
        IF Strip(content) = "" THEN Ok(<<>>)
        ELSE Ok(<<ListAppend("documents", content),
                  ListAppend("metadatas",
                    [type |-> JStr("calendar_event"),
                     date |-> DictGet(event, "date", JStr("")),
                     time |-> IF JsonFalsy(time) THEN JStr("") ELSE time,
                     source_file |-> DictGet(event, "source_file", JStr("unknown")),
                     tags |-> JStr("")]),
                  ListAppend("ids", "event_" \o ToString(i))>>)

\* lines 34-86: the appends of the two loops, or the exception that ends them
StoreLog(result) ==
  Chain([k \in 1..Len(result.notes) |-> NoteStep(k - 1, result.notes[k])]
        \o [k \in 1..Len(result.calendar_events) |->
              EventStep(k - 1, result.calendar_events[k])])

\* the collection of chromadb: a set of entries, at most one for each id
CollectionEntry(id, document, metadata) ==
  [id |-> id, document |-> document, metadata |-> metadata]

\* collection.get()["ids"]
CollectionIds(coll) == {e.id : e \in coll}

\* collection.delete(ids=...)
CollectionDelete(coll, ids) == {e \in coll : e.id \notin ids}

\* collection.add refuses lists of unequal length and a repeated id
AddRaises(documents, metadatas, ids) ==
  \/ Len(documents) # Len(ids)
  \/ Len(metadatas) # Len(ids)
  \/ \E j, k \in 1..Len(ids) : j # k /\ ids[j] = ids[k]

\* collection.add(documents, metadatas, ids): an id already held is left alone
CollectionAdd(coll, documents, metadatas, ids) ==
  coll \cup {CollectionEntry(ids[k], documents[k], metadatas[k]) :
               k \in {j \in 1..Len(ids) : ids[j] \notin CollectionIds(coll)}}

\* variant: the entries of the earlier call are left in place
ClearExisting_Never(coll) == coll

\* lines 90-95: delete every id the collection holds
ClearExisting(coll) ==
  IF CollectionIds(coll) # {} THEN CollectionDelete(coll, CollectionIds(coll)) ELSE coll

\* the outcome of a store call: its exception, lists and stats, and the
\* collection it leaves
StoreOutcome(exc, documents, metadatas, ids, coll) ==
  [exc |-> exc, documents |-> documents, metadatas |-> metadatas, ids |-> ids,
   collection |-> coll,
   stats |-> IF exc # "" THEN <<>>
             ELSE <<[total_documents |-> Len(documents),
                     notes |-> Len(SelectSeq(metadatas, LAMBDA m : m.type = JStr("note"))),
                     events |-> Len(SelectSeq(metadatas,
                                              LAMBDA m : m.type = JStr("calendar_event"))),
                     db_path |-> "./output/vectordb"]>>]

\* VectorStore.store(result) on the collection coll
store(coll, result) ==
  LET log == StoreLog(result)
      documents == ListOf(log.out, "documents")
      metadatas == ListOf(log.out, "metadatas")
      ids == ListOf(log.out, "ids")
  IN
    IF log.exc # "" THEN StoreOutcome(log.exc, <<>>, <<>>, <<>>, coll)
    ELSE IF documents = <<>>
    THEN StoreOutcome("", documents, metadatas, ids, ClearExisting(coll))
    ELSE IF AddRaises(documents, metadatas, ids)
    THEN StoreOutcome("ValueError", documents, metadatas, ids, ClearExisting(coll))
    ELSE StoreOutcome("", documents, metadatas, ids,
                      CollectionAdd(ClearExisting(coll), documents, metadatas, ids))

\* ProcessedResults of the model
NoteMilk ==
  JObj(<<KV("content", JStr("Buy milk")), KV("topic", JStr("personal")),
         KV("source_file", JStr("notes.txt")),
         KV("tags", JArr(<<JStr("home"), JStr("todo")>>))>>)

NoteBlank == JObj(<<KV("content", JStr("  \n")), KV("topic", JStr("personal"))>>)

NotePhoto ==
  JObj(<<KV("content", JStr("Whiteboard sketch")), KV("topic", JStr("work_ideas")),
         KV("source_file", JStr("IMG_01.PNG"))>>)

NoteNullTags == JObj(<<KV("content", JStr("Call Sam")), KV("tags", JNull)>>)

EventStandup ==
  JObj(<<KV("title", JStr("Standup")), KV("description", JStr("Daily sync")),
         KV("date", JStr("2025-01-06")), KV("time", JNull),
         KV("source_file", JStr("plan.txt"))>>)

EventLaunch ==
  JObj(<<KV("title", JStr("Launch")), KV("date", JStr("2025-02-01")),
         KV("time", JStr("09:30"))>>)

Results ==
  {ProcessedResult(<<>>, <<>>, <<>>),
   ProcessedResult(<<"personal", "work_ideas">>, <<EventStandup>>,
                   <<NoteMilk, NoteBlank, NotePhoto>>),
   ProcessedResult(<<"personal">>, <<>>, <<NoteBlank, JObj(<<>>)>>),
   ProcessedResult(<<"work_ideas">>, <<JObj(<<>>), EventLaunch>>, <<NotePhoto>>),
   ProcessedResult(<<"personal">>, <<>>, <<NoteMilk, NoteNullTags>>),
   ProcessedResult(<<"personal">>, <<>>, <<NoteMilk>>),
   ProcessedResult(<<"personal", "work_ideas">>, <<EventLaunch>>, <<NotePhoto, NoteMilk>>)}

(***************************************************************************)
(* The journal writer (journal_generator.py), the calendar writer          *)
(* (calendar_generator.py) and the index rebuild (build_vectordb.py).      *)
(* The journal directory is absent (<<>>) or a set of files <<S>>; the     *)
(* calendar file is absent or holds the value json.dump wrote, <<jcal>>.   *)
(***************************************************************************)
\* the keys of a dict filled by setdefault(key) for each key of keys in
\* turn: the distinct keys, in order of first occurrence
KeysInOrder(keys) ==
  LET idxs == SelectSeq([k \in 1..Len(keys) |-> k],
                        LAMBDA k : \A j \in 1..(k - 1) : keys[j] # keys[k])
  IN [k \in 1..Len(idxs) |-> keys[idxs[k]]]

\* str.title(): a letter is upper case after a character that is no letter
Title(s) ==
  LET IsCased(c) == (Ord(c) >= 65 /\ Ord(c) <= 90) \/ (Ord(c) >= 97 /\ Ord(c) <= 122) IN
    Join("", [i \in 1..Len(s) |->
                IF i > 1 /\ IsCased(At(s, i - 1)) THEN LowerChar(At(s, i))
                ELSE UpperChar(At(s, i))])

\* s.replace(old, "")
RECURSIVE RemoveFrom(_, _, _)
RemoveFrom(s, old, i) ==
  IF i > Len(s) THEN ""
  ELSE IF StartsAt(s, i, old) THEN RemoveFrom(s, old, i + Len(old))
  ELSE At(s, i) \o RemoveFrom(s, old, i + 1)

Remove(s, old) == RemoveFrom(s, old, 1)

\* datetime.now(), the same for every file of the model
Now == [date |-> "2025-01-06", time |-> "09:00", seconds |-> "00"]

\* lines 74-84: the lines written for one note (the back quote around a
\* tag, which a string of this module cannot hold, is written as a quote)
JournalNoteLines(note) ==
  LET tags == DictGet(note, "tags", JArr(<<>>)) IN
    <<"- " \o PyStr(DictGet(note, "content", JStr("")))>>
    \o (IF JsonFalsy(tags) THEN <<>>
        ELSE <<"  " \o Join(" ", [k \in 1..Len(JsonIterate(tags).out) |->
                                    "'#" \o PyStr(JsonIterate(tags).out[k]) \o "'"])>>)
    \o <<"">>

\* JournalGenerator._generate_markdown(topic, notes)
_generate_markdown(topic, notes) ==
  LET SourceOf(note) == DictGet(note, "source_file", JStr("unknown"))
      sources == KeysInOrder([k \in 1..Len(notes) |-> SourceOf(notes[k])])
      SourceLines(source) ==
        <<"## From: " \o PyStr(source), "">>
        \o Chain([k \in 1..Len(notes) |->
                    IF SourceOf(notes[k]) = source THEN Ok(JournalNoteLines(notes[k]))
                    ELSE Ok(<<>>)]).out
  IN
    Join("\n",
         <<"# " \o Title(Join(" ", Split(topic, "_"))), "",
           "*Generated on " \o Now.date \o " " \o Now.time \o "*", "", "---", "">>
         \o Chain([k \in 1..Len(sources) |-> Ok(SourceLines(sources[k]))]).out)

\* what stops _generate_markdown: replace on a topic that is no str,
\* iteration over tags that cannot be iterated
TopicFault(topic, notes) ==
  IF topic.t # "str" THEN "AttributeError"
  ELSE IF \E k \in 1..Len(notes) :
            /\ ~JsonFalsy(DictGet(notes[k], "tags", JArr(<<>>)))
            /\ JsonIterate(DictGet(notes[k], "tags", JArr(<<>>))).exc # ""
  THEN "TypeError"
  ELSE ""

\* JournalGenerator.generate(result) over the journal directory: the
\* exception that ends it, if any, and the directory it leaves (the files
\* of the topics before the one that raises are written)
JournalGenerate(journal, result) ==
  LET TopicOf(note) == DictGet(note, "topic", JStr("uncategorized"))
      before == IF journal = <<>> THEN {} ELSE journal[1]
      topics == KeysInOrder([k \in 1..Len(result.notes) |-> TopicOf(result.notes[k])])
      NotesOf(topic) == SelectSeq(result.notes, LAMBDA note : TopicOf(note) = topic)
      bad == {t \in 1..Len(topics) : TopicFault(topics[t], NotesOf(topics[t])) # ""}
      done == IF bad = {} THEN Len(topics)
              ELSE (CHOOSE t \in bad : \A u \in bad : t <= u) - 1
      written == {[name |-> topics[t].s \o ".md",
                   text |-> _generate_markdown(topics[t].s, NotesOf(topics[t]))] :
                    t \in 1..done}
  IN
    IF \E k \in 1..Len(result.notes) : result.notes[k].t # "dict"
    THEN [exc |-> "AttributeError", journal |-> <<before>>]
    ELSE [exc |-> IF bad = {} THEN ""
                  ELSE TopicFault(topics[done + 1], NotesOf(topics[done + 1])),
          journal |-> <<{f \in before : \A w \in written : w.name # f.name}
                        \cup written>>]

\* one jCal property, ["propname", {}, "type", value]
JcalProp(name, type, value) == JArr(<<JStr(name), JObj(<<>>), JStr(type), value>>)

\* CalendarGenerator._build_vevent(event, index)
_build_vevent(event, index) ==
  LET date_str == DictGet(event, "date", JStr(""))
      time_str == DictGet(event, "time", JNull)
      description == DictGet(event, "description", JStr(""))
      source == DictGet(event, "source_file", JStr(""))
  IN
    JArr(<<JStr("vevent"),
           JArr(<<JcalProp("uid", "text",
                           JStr("event-" \o ToString(index) \o "-" \o PyStr(date_str)
                                \o "@desktop-declutter")),
                  JcalProp("summary", "text", DictGet(event, "title", JStr("Untitled"))),
                  IF JsonFalsy(time_str) THEN JcalProp("dtstart", "date", date_str)
                  ELSE JcalProp("dtstart", "date-time",
                                JStr(PyStr(date_str) \o "T" \o PyStr(time_str) \o ":00"))>>
                \o (IF JsonFalsy(description) THEN <<>>
                    ELSE <<JcalProp("description", "text", description)>>)
                \o (IF JsonFalsy(source) THEN <<>>
                    ELSE <<JcalProp("x-source-file", "text", source)>>)
                \o <<JcalProp("dtstamp", "date-time",
                              JStr(Now.date \o "T" \o Now.time \o ":" \o Now.seconds))>>),
           JArr(<<>>)>>)

\* CalendarGenerator.generate(result) over the calendar file: events.json
\* is written once the whole structure is built
CalendarGenerate(calendar, result) ==
  IF \E k \in 1..Len(result.calendar_events) : result.calendar_events[k].t # "dict"
  THEN [exc |-> "AttributeError", calendar |-> calendar]
  ELSE [exc |-> "",
        calendar |->
          <<JArr(<<JStr("vcalendar"),
                   JArr(<<JcalProp("version", "text", JStr("2.0")),
                          JcalProp("prodid", "text", JStr("-//Desktop Declutter Agent//EN")),
                          JcalProp("calscale", "text", JStr("GREGORIAN"))>>),
                   JArr([k \in 1..Len(result.calendar_events) |->
                           _build_vevent(result.calendar_events[k], k - 1)])>>)>>]

\* build_vectordb.py lines 53-80: the notes read back from one journal file
RebuiltNotes(file) ==
  LET lines == Split(file.text, "\n")
      SourceAt(k) ==
        LET froms == {j \in 1..(k - 1) : StartsWith(lines[j], "## From:")} IN
          IF froms = {} THEN "unknown"
          ELSE Strip(Remove(lines[CHOOSE j \in froms : \A h \in froms : h <= j],
                            "## From:"))
      kept == SelectSeq([k \in 1..Len(lines) |-> k],
                        LAMBDA k : /\ ~StartsWith(lines[k], "## From:")
                                   /\ StartsWith(lines[k], "- ")
                                   /\ Strip(SubSeq(lines[k], 3, Len(lines[k]))) # "")
  IN
    [k \in 1..Len(kept) |->
       [document |-> Strip(SubSeq(lines[kept[k]], 3, Len(lines[kept[k]]))),
        metadata |-> [type |-> JStr("note"),
                      topic |-> JStr(Remove(file.name, ".md")),
                      source_file |-> JStr(SourceAt(kept[k])),
                      tags |-> JStr("")]]]

\* props.get(name, default) for props = {p[0]: p[3] for p in event[1]}
PropGet(props, name, default) ==
  LET hits == {k \in 1..Len(props) : props[k].items[1] = JStr(name)} IN
    IF hits = {} THEN default
    ELSE props[CHOOSE k \in hits : \A h \in hits : h <= k].items[4]

\* build_vectordb.py lines 86-117: the events read back from the calendar
RebuiltEvents(calendar) ==
  LET events == IF calendar = <<>> \/ Len(calendar[1].items) <= 2 THEN <<>>
                ELSE calendar[1].items[3].items
      vevents == SelectSeq(events, LAMBDA event : event.items[1] = JStr("vevent"))
  IN
    [k \in 1..Len(vevents) |->
       [document |-> Strip(PyStr(PropGet(vevents[k].items[2].items, "summary", JStr("")))
                           \o ". "
                           \o PyStr(PropGet(vevents[k].items[2].items, "description",
                                            JStr("")))),
        metadata |-> [type |-> JStr("calendar_event"),
                      date |-> PropGet(vevents[k].items[2].items, "dtstart", JStr("")),
                      time |-> JStr(""),
                      source_file |-> PropGet(vevents[k].items[2].items, "x-source-file",
                                              JStr("")),
                      tags |-> JStr("")]]]

\* build_from_existing(output_dir), for one order of os.listdir: the
\* collection is deleted, created again and filled from the files
build_from_existing(out, order) ==
  IF out.journal = <<>> THEN [status |-> 1, collection |-> <<>>]
  ELSE
    LET notes == Chain([f \in 1..Len(order) |->
                          IF Len(order[f].name) >= 3
                             /\ SubSeq(order[f].name, Len(order[f].name) - 2,
                                       Len(order[f].name)) = ".md"
                          THEN Ok(RebuiltNotes(order[f])) ELSE Ok(<<>>)]).out
        events == RebuiltEvents(out.calendar)
    IN
      [status |-> 0,
       collection |->
         <<CollectionAdd({},
             [k \in 1..(Len(notes) + Len(events)) |->
                IF k <= Len(notes) THEN notes[k].document
                ELSE events[k - Len(notes)].document],
             [k \in 1..(Len(notes) + Len(events)) |->
                IF k <= Len(notes) THEN notes[k].metadata
                ELSE events[k - Len(notes)].metadata],
             [k \in 1..(Len(notes) + Len(events)) |->
                IF k <= Len(notes) THEN "note_" \o ToString(k - 1)
                ELSE "event_" \o ToString(k - Len(notes) - 1)])>>]

\* main before its first run, and the output directory before any run
NoRun ==
  [pc |-> "idle", args |-> <<>>, trace |-> <<>>, exit |-> <<>>, before |-> 0,
   parsed_files |-> <<>>, result |-> <<>>, runs |-> 0]

NoOutput == [journal |-> <<>>, calendar |-> <<>>]

(***************************************************************************)
(* State.                                                                  *)
(*   desktop       the entries of the scanned directory (never modified)   *)
(*   pc            "idle", "scan" (inside parse_all_files) or "raised"     *)
(*   listing       sorted(self.desktop_path.iterdir()) of the current run  *)
(*   idx           position of the for loop in listing                     *)
(*   parsed_files  the list parse_all_files is building                    *)
(*   calls         the handler parse_file chose for each file of the run   *)
(*   raised        the exception that left parse_all_files, with its file  *)
(*   results       the lists returned by the completed runs                *)
(*   extracted     the direct SmartExtractor calls made and their outcomes *)
(*   collection    the entries of the "desktop_knowledge" collection       *)
(*   stored        the VectorStore.store calls made and their outcomes     *)
(*   main          the current run of main: arguments, position, stages    *)
(*   output        the journal and calendar files of the output directory  *)
(***************************************************************************)
VARIABLES desktop, pc, listing, idx, parsed_files, calls, raised, results, extracted,
          collection, stored, main, output

vars == <<desktop, pc, listing, idx, parsed_files, calls, raised, results, extracted,
          collection, stored, main, output>>

(***************************************************************************)
(* The directories of the model.                                           *)
(***************************************************************************)
ValidJsonText == json_dumps(JObj(<<KV("a", JNum(1)), KV("b", JObj(<<KV("c", JArr(<<JNum(2), JNull>>))>>))>>))

SnapshotJsonText == json_dumps(SnapshotDoc(<<RolesSnapshot, ErrorSnapshot>>))

DesktopCandidates ==
  {Named(".env", File("SECRET=1\n", 0, TRUE)),
   Named("NOTES.TXT", File("remember to call Sam\n", 0, TRUE)),
   Named("notes.txt", File("cafﾀ at 9\n", 0, TRUE)),
   Named("notes.txt", File("", 0, TRUE)),
   Named("notes.txt", File("ab", 2, TRUE)),
   Named("notes.txt", Directory({Named("deep.txt", File("deep\n", 0, TRUE))})),
   Named("app.py", File("print(1)  # TODO: fix this\n", 0, TRUE)),
   Named("data.csv", File("id,notes\n1,hi\n2\n", 0, TRUE)),
   Named("conf.json", File(ValidJsonText, 0, TRUE)),
   Named("conf.json", File("{not json", 0, TRUE)),
   Named("run.log", File("INFO: request completed\n# TODO: fix this\n", 0, TRUE)),
   Named("photo.png", File("PNG", 2, TRUE)),
   Named("Makefile", File("all:\n", 0, TRUE)),
   Named("Makefile", File("", 4, TRUE)),
   Named("archive.tar.gz", File("", 0, FALSE)),
   Named("api-test-9-25.log", File("INFO: request completed\nplease ask bob\n", 0, TRUE)),
   Named("system_logs.txt", File("[ERROR] connection refused\nINFO ok\n", 0, TRUE)),
   Named("api_responses_sample.json", File(SnapshotJsonText, 0, TRUE)),
   Named("api_responses_sample.json", File("{not json", 0, TRUE)),
   Named("dependencies_audit.csv", File("id,status,notes\n42,done,follow up with Sam\n", 0, TRUE)),
   Named("link", DanglingLink)}

UniqueNames(S) == \A a, b \in S : a.name = b.name => a = b

\* subsets of S with at most n elements
RECURSIVE UpTo(_, _)
UpTo(S, n) ==
  IF n = 0 THEN {{}}
  ELSE LET smaller == UpTo(S, n - 1) IN
         smaller \cup {d \cup {c} : d \in smaller, c \in S}

Desktops == {d \in UpTo(DesktopCandidates, MaxFiles) : UniqueNames(d)}

Idle ==
  /\ pc = "idle"
  /\ listing = <<>>
  /\ idx = 1
  /\ parsed_files = <<>>
  /\ calls = <<>>
  /\ raised = <<>>
  /\ results = <<>>
  /\ extracted = <<>>
  /\ collection = {}
  /\ stored = <<>>
  /\ main = NoRun
  /\ output = NoOutput

Init ==
  /\ desktop \in Desktops
  /\ Idle

(***************************************************************************)
(* parse_all_files, one action per step of its loop.                       *)
(***************************************************************************)
\* lines 54-56: the listing is taken and sorted
StartScan ==
  /\ pc = "idle"
  /\ Len(results) < MaxRuns
  /\ \E order \in Orders(Iterdir(DesktopPath, desktop)) : listing' = Sorted(order)
  /\ idx' = 1
  /\ parsed_files' = <<>>
  /\ calls' = <<>>
  /\ pc' = "scan"
  /\ UNCHANGED <<desktop, raised, results, extracted, collection, stored, main, output>>

\* variant: the record counts only when its content is non-empty
Truthy_NeedsContent(value) == value # <<>> /\ value[1].content # ""

\* "if parsed:" for the value parse_file returned
Truthy(value) == value # <<>>

\* line 57: filepath.is_file() is false
SkipEntry ==
  /\ pc = "scan"
  /\ idx <= Len(listing)
  /\ listing[idx].entry.kind # "file"
  /\ idx' = idx + 1
  /\ UNCHANGED <<desktop, pc, listing, parsed_files, calls, raised, results, extracted, collection, stored, main, output>>

\* variant: one content buffer is shared by the files of a run
ParseEntry_SharedBuffer ==
  /\ pc = "scan"
  /\ idx <= Len(listing)
  /\ listing[idx].entry.kind = "file"
  /\ \E r \in {parse_file(listing[idx].path, listing[idx].entry)} :
       /\ r.exc = ""
       /\ parsed_files' =
            IF Truthy(r.value)
            THEN Append(parsed_files,
                        [r.value[1] EXCEPT !.content =
                           (IF parsed_files = <<>> THEN ""
                            ELSE parsed_files[Len(parsed_files)].content) \o @])
            ELSE parsed_files
       /\ calls' = Append(calls, [filename |-> PathName(listing[idx].path),
                                  handler |-> r.handler])
  /\ idx' = idx + 1
  /\ UNCHANGED <<desktop, pc, listing, raised, results, extracted, collection, stored, main, output>>

\* lines 57-60: parse_file returns
ParseEntry ==
  /\ pc = "scan"
  /\ idx <= Len(listing)
  /\ listing[idx].entry.kind = "file"
  /\ \E r \in {parse_file(listing[idx].path, listing[idx].entry)} :
       /\ r.exc = ""
       /\ parsed_files' = IF Truthy(r.value) THEN Append(parsed_files, r.value[1])
                          ELSE parsed_files
       /\ calls' = Append(calls, [filename |-> PathName(listing[idx].path),
                                  handler |-> r.handler])
  /\ idx' = idx + 1
  /\ UNCHANGED <<desktop, pc, listing, raised, results, extracted, collection, stored, main, output>>

\* line 58: parse_file raises, and the exception leaves parse_all_files
ParseRaises ==
  /\ pc = "scan"
  /\ idx <= Len(listing)
  /\ listing[idx].entry.kind = "file"
  /\ \E r \in {parse_file(listing[idx].path, listing[idx].entry)} :
       /\ r.exc # ""
       /\ raised' = <<[exc |-> r.exc, filename |-> PathName(listing[idx].path)]>>
       /\ calls' = Append(calls, [filename |-> PathName(listing[idx].path),
                                  handler |-> r.handler])
  /\ pc' = "raised"
  /\ UNCHANGED <<desktop, listing, idx, parsed_files, results, extracted, collection, stored, main, output>>

\* line 62: return parsed_files
ReturnFiles ==
  /\ pc = "scan"
  /\ idx > Len(listing)
  /\ results' = Append(results, parsed_files)
  /\ pc' = "idle"
  /\ UNCHANGED <<desktop, listing, idx, parsed_files, calls, raised, extracted, collection, stored, main, output>>

Next == StartScan \/ SkipEntry \/ ParseEntry \/ ParseRaises \/ ReturnFiles

Spec == Init /\ [][Next]_vars

(***************************************************************************)
(* parse_all_files over directories of image files.                       *)
(***************************************************************************)
ImageCandidates ==
  {Named("photo.png", File("PNG", 2, TRUE)),
   Named("photo.png", File("", 0, TRUE)),
   Named("photo.png", File("PNG", 0, FALSE)),
   Named("pic.jpg", File("JFIF", 1, TRUE)),
   Named("SCAN.JPEG", File("Exif", 0, TRUE)),
   Named("anim.gif", File("GIF89a", 0, TRUE)),
   Named("art.webp", File("RIFF", 3, TRUE)),
   Named("notes.txt", File("see photo.png\n", 0, TRUE)),
   Named("shots", Directory({Named("deep.png", File("PNG", 0, TRUE))}))}

InitImages ==
  /\ desktop \in {d \in UpTo(ImageCandidates, MaxFiles) : UniqueNames(d)}
  /\ Idle

ImageSpec == InitImages /\ [][Next]_vars

(***************************************************************************)
(* The extractor called directly on one file, in each of its four modes.   *)
(***************************************************************************)
SampleLines ==
  {"INFO: request completed", "# TODO: fix this", "[ERROR] connection refused",
   "[warn] disk full, need to clean", "please ask bob", "cafﾀ closed"}

\* the texts of at most n lines, each line ended by "\n"
RECURSIVE LogTexts(_)
LogTexts(n) ==
  IF n = 0 THEN {""}
  ELSE LogTexts(n - 1) \cup {t \o l \o "\n" : t \in LogTexts(n - 1), l \in SampleLines}

\* n copies of s
RECURSIVE Repeat(_, _)
Repeat(s, n) ==
  IF n = 0 THEN ""
  ELSE IF n = 1 THEN s
  ELSE Repeat(s, n \div 2) \o Repeat(s, n - n \div 2)

\* a long log with exactly three human lines among machine lines
LongLogText ==
  "# TODO: fix this\n" \o Repeat("ok\n", LongLogLines - 3)
  \o "need to rotate keys\nplease ask bob\n"

\* a log in which every line is a human line
ChattyLogText == Repeat("ask a\n", ChattyLogLines)

CsvTexts ==
  {"id,status,notes\n42,done,follow up with Sam\n",
   "id,name\n1,a\n",
   "id,Notes,comment\n1,a,b\n\n2,,\n",
   "id,notes\n1\n",
   "id,notes\n1,hi\n2\n",
   "id,notes\n1,\n",
   "id,notes\n7,cafﾀ\n8,x,y\n"}

ExtractCandidates ==
  {Named("run.log", File(t, 0, TRUE)) : t \in LogTexts(MaxLines)}
  \cup {Named("run.log", File(LongLogText, 0, TRUE)),
        Named("run.log", File(ChattyLogText, 0, TRUE)),
        Named("run.log", File("# note: bad bytes follow\n", 2, TRUE)),
        Named("run.log", File("# note: locked\n", 0, FALSE))}
  \cup {Named("dependencies_audit.csv", File(t, 0, TRUE)) : t \in CsvTexts}
  \cup {Named("api_responses_sample.json", File(json_dumps(d), 0, TRUE)) : d \in JsonDocs}
  \cup {Named("api_responses_sample.json", File(t, 0, TRUE)) : t \in JsonGarbage}

\* directories of two files, for the same extractor instance to be called on both
PairedCandidates ==
  {{c, Named("system_logs.txt", File("[ERROR] connection refused\nplease ask bob\n", 0, TRUE))} :
     c \in {Named("run.log", File("# TODO: fix this\nINFO: request completed\n", 0, TRUE)),
            Named("dependencies_audit.csv", File("id,status,notes\n42,done,follow up with Sam\n", 0, TRUE)),
            Named("api_responses_sample.json", File(SnapshotJsonText, 0, TRUE))}}

InitExtract ==
  /\ desktop \in {{c} : c \in ExtractCandidates} \cup PairedCandidates
  /\ Idle

\* variant: the lines of the previous call stay on the instance
Extraction_Remembering(mode, c, outcome) ==
  /\ Len(extracted) < MaxExtractions
  /\ extracted' = Append(extracted,
       [mode |-> mode,
        filename |-> c.name,
        file |-> c.entry,
        outcome |->
          IF outcome.exc = "" /\ extracted # <<>> /\ extracted[Len(extracted)].outcome.exc = ""
          THEN [outcome EXCEPT !.value[1].meaningful_content =
                  extracted[Len(extracted)].outcome.value[1].meaningful_content \o "\n" \o @]
          ELSE outcome])
  /\ UNCHANGED <<desktop, pc, listing, idx, parsed_files, calls, raised, results, collection, stored, main, output>>

\* one direct call of the extractor, recorded with its outcome
Extraction(mode, c, outcome) ==
  /\ Len(extracted) < MaxExtractions
  /\ extracted' = Append(extracted,
                         [mode |-> mode,
                          filename |-> c.name,
                          file |-> c.entry,
                          outcome |-> outcome])
  /\ UNCHANGED <<desktop, pc, listing, idx, parsed_files, calls, raised, results, collection, stored, main, output>>

FilePath(c) == PathStr(Append(DesktopPath, c.name))

ExtractLog ==
  \E c \in desktop : Extraction("log", c, extract_from_log(FilePath(c), c.entry))

ExtractSystemLogs ==
  \E c \in desktop :
    Extraction("system_log", c, extract_from_system_logs(FilePath(c), c.entry))

\* the reader above covers text without quoted fields
ExtractCsvNotes ==
  \E c \in desktop :
    /\ ~Contains(c.entry.text, "\"")
    /\ Extraction("csv_notes", c, extract_from_csv_notes(FilePath(c), c.entry))

ExtractJson ==
  \E c \in desktop : Extraction("json", c, extract_from_json(FilePath(c), c.entry))

NextExtract == ExtractLog \/ ExtractSystemLogs \/ ExtractCsvNotes \/ ExtractJson

ExtractSpec == InitExtract /\ [][NextExtract]_vars

(***************************************************************************)
(* VectorStore.store called again and again on one persistent collection.  *)
(***************************************************************************)
\* VectorStore(output).store(result), recorded with its outcome
Store ==
  /\ Len(stored) < MaxStores
  /\ \E result \in Results :
       \E outcome \in {store(collection, result)} :
         /\ collection' = outcome.collection
         /\ stored' = Append(stored, [result |-> result, outcome |-> outcome])
  /\ UNCHANGED <<desktop, pc, listing, idx, parsed_files, calls, raised, results, extracted,
                 main, output>>

InitStore ==
  /\ desktop = {}
  /\ Idle

StoreSpec == InitStore /\ [][Store]_vars

(***************************************************************************)
(* main (main.py): one action per stage, the parse stage being the steps   *)
(* of parse_all_files.  main.trace records the start and the end of each   *)
(* stage of the current run; main.exit is the way the run ended.           *)
(***************************************************************************)
\* the input_dir arguments of the model: the desktop, and no directory
InputDirs == {PathStr(DesktopPath), "./missing"}

\* os.path.isdir(args.input_dir)
isdir(input_dir) == input_dir = PathStr(DesktopPath)

MainDesktops ==
  {{},
   {Named("NOTES.TXT", File("remember to call Sam\n", 0, TRUE)),
    Named("notes.txt", Directory({Named("deep.txt", File("deep\n", 0, TRUE))}))},
   {Named("conf.json", File("{not json", 0, TRUE))}}

\* the results the language model returns in the runs of main
MainResults == {r \in Results : Len(r.notes) >= 2}

\* variant: the calendar is written before the journal
StepAfter_CalendarFirst(step) ==
  CASE step = "step1" -> "step2"
    [] step = "step2" -> "step4"
    [] step = "step4" -> "step3"
    [] step = "step3" -> "step5"
    [] step = "step5" -> "done"

\* lines 62-94: the program order of the five steps
StepAfter(step) ==
  CASE step = "step1" -> "step2"
    [] step = "step2" -> "step3"
    [] step = "step3" -> "step4"
    [] step = "step4" -> "step5"
    [] step = "step5" -> "done"

\* the stage each step calls
StageOf(step) ==
  CASE step = "step1" -> "parse"
    [] step = "step2" -> "llm"
    [] step = "step3" -> "journal"
    [] step = "step4" -> "calendar"
    [] step = "step5" -> "index"

StageEvent(stage, event) == [stage |-> stage, event |-> event]

\* the process ends: sys.exit(status), an uncaught exception, or return
Exited(run, status, exc) ==
  [run EXCEPT !.pc = "exited", !.exit = <<[status |-> status, exc |-> exc]>>]

\* the call of a step's stage begins
Started(run, step) ==
  [run EXCEPT !.trace = Append(@, StageEvent(StageOf(step), "start"))]

\* the call of a step's stage ends: it raised exc, or it returned and main
\* goes on to the next step, or returns after the last one
Finished(run, step, exc) ==
  IF exc # ""
  THEN Exited([run EXCEPT !.trace = Append(@, StageEvent(StageOf(step), "raise"))], 1, exc)
  ELSE IF StepAfter(step) = "done"
  THEN Exited([run EXCEPT !.trace = Append(@, StageEvent(StageOf(step), "return"))], 0, "")
  ELSE [run EXCEPT !.trace = Append(@, StageEvent(StageOf(step), "return")),
                   !.pc = StepAfter(step)]

\* lines 17-46: main is started with its arguments
MainStart ==
  /\ main.pc \in {"idle", "exited"}
  /\ main.runs < MaxMains
  /\ Len(results) < MaxRuns
  /\ \E input_dir \in InputDirs, rebuild_vectordb \in BOOLEAN :
       main' = [NoRun EXCEPT !.pc = "begin",
                             !.args = [input_dir |-> input_dir, output |-> "./output",
                                       rebuild_vectordb |-> rebuild_vectordb],
                             !.before = Len(results),
                             !.runs = main.runs + 1]
  /\ UNCHANGED <<desktop, pc, listing, idx, parsed_files, calls, raised, results, extracted,
                 collection, stored, output>>

\* lines 49-55: build_from_existing(args.output), then return
MainRebuild ==
  /\ main.pc = "begin"
  /\ main.args.rebuild_vectordb
  /\ \E order \in (IF output.journal = <<>> THEN {<<>>} ELSE Orders(output.journal[1])) :
       \E built \in {build_from_existing(output, order)} :
         /\ collection' = IF built.status = 0 THEN built.collection[1] ELSE collection
         /\ main' = Exited([main EXCEPT !.trace =
                              <<StageEvent("rebuild", "start"),
                                StageEvent("rebuild",
                                           IF built.status = 0 THEN "return" ELSE "exit")>>],
                           built.status, "")
  /\ UNCHANGED <<desktop, pc, listing, idx, parsed_files, calls, raised, results, extracted,
                 stored, output>>

\* lines 58-60: the input directory is missing
MainInputMissing ==
  /\ main.pc = "begin"
  /\ ~main.args.rebuild_vectordb
  /\ ~isdir(main.args.input_dir)
  /\ main' = Exited(main, 1, "")
  /\ UNCHANGED <<desktop, pc, listing, idx, parsed_files, calls, raised, results, extracted,
                 collection, stored, output>>

\* lines 63-65: FileParser(args.input_dir).parse_all_files() is called
Step1Parse ==
  /\ main.pc = "begin"
  /\ ~main.args.rebuild_vectordb
  /\ isdir(main.args.input_dir)
  /\ pc = "idle"
  /\ main' = Started([main EXCEPT !.pc = "step1"], "step1")
  /\ UNCHANGED <<desktop, pc, listing, idx, parsed_files, calls, raised, results, extracted,
                 collection, stored, output>>

\* line 65: parse_all_files returns
Step1Returns ==
  /\ main.pc = "step1"
  /\ pc = "idle"
  /\ Len(results) = main.before + 1
  /\ main' = Finished([main EXCEPT !.parsed_files = results[Len(results)]], "step1", "")
  /\ UNCHANGED <<desktop, pc, listing, idx, parsed_files, calls, raised, results, extracted,
                 collection, stored, output>>

\* line 65: the exception that left parse_all_files leaves main
Step1Raises ==
  /\ main.pc = "step1"
  /\ pc = "raised"
  /\ main' = Finished(main, "step1", raised[1].exc)
  /\ pc' = "idle"
  /\ UNCHANGED <<desktop, listing, idx, parsed_files, calls, raised, results, extracted,
                 collection, stored, output>>

\* lines 71-72: LLMProcessor().process_all(parsed_files); the constructor
\* raises without an API key, process_all on a reply that is no JSON
Step2Process ==
  /\ main.pc = "step2"
  /\ \E outcome \in {Raised("ValueError"), Raised("JSONDecodeError")}
                    \cup {Returned(r) : r \in MainResults} :
       main' = Finished(Started([main EXCEPT !.result = outcome.value], "step2"),
                        "step2", outcome.exc)
  /\ UNCHANGED <<desktop, pc, listing, idx, parsed_files, calls, raised, results, extracted,
                 collection, stored, output>>

\* lines 80-81: JournalGenerator(args.output).generate(result)
Step3Journal ==
  /\ main.pc = "step3"
  /\ \E written \in {JournalGenerate(output.journal, main.result[1])} :
       /\ output' = [output EXCEPT !.journal = written.journal]
       /\ main' = Finished(Started(main, "step3"), "step3", written.exc)
  /\ UNCHANGED <<desktop, pc, listing, idx, parsed_files, calls, raised, results, extracted,
                 collection, stored>>

\* lines 86-87: CalendarGenerator(args.output).generate(result)
Step4Calendar ==
  /\ main.pc = "step4"
  /\ \E written \in {CalendarGenerate(output.calendar, main.result[1])} :
       /\ output' = [output EXCEPT !.calendar = written.calendar]
       /\ main' = Finished(Started(main, "step4"), "step4", written.exc)
  /\ UNCHANGED <<desktop, pc, listing, idx, parsed_files, calls, raised, results, extracted,
                 collection, stored>>

\* lines 92-107: VectorStore(args.output).store(result), then the summary
Step5Index ==
  /\ main.pc = "step5"
  /\ \E outcome \in {store(collection, main.result[1])} :
       /\ collection' = outcome.collection
       /\ stored' = Append(stored, [result |-> main.result[1], outcome |-> outcome])
       /\ main' = Finished(Started(main, "step5"), "step5", outcome.exc)
  /\ UNCHANGED <<desktop, pc, listing, idx, parsed_files, calls, raised, results, extracted,
                 output>>

\* the steps of parse_all_files, inside step 1
MainParse ==
  /\ main.pc = "step1"
  /\ Len(results) = main.before
  /\ Next

InitMain ==
  /\ desktop \in MainDesktops
  /\ Idle

MainNext ==
  \/ MainStart \/ MainRebuild \/ MainInputMissing
  \/ Step1Parse \/ MainParse \/ Step1Returns \/ Step1Raises
  \/ Step2Process \/ Step3Journal \/ Step4Calendar \/ Step5Index

MainSpec == InitMain /\ [][MainNext]_vars

(***************************************************************************)
(* Properties of parse_all_files (specification Spec).                     *)
(***************************************************************************)
\* the entries of the directory that are regular files with a non-hidden name
VisibleFiles == {c \in desktop : c.entry.kind = "file" /\ At(c.name, 1) # "."}

ExtensionOf(c) == Lower(PathSuffix(c.name))

SupportedType(c) ==
  \/ c.name \in {"api-test-9-25.log", "system_logs.txt", "api_responses_sample.json",
                 "dependencies_audit.csv"}
  \/ ExtensionOf(c) \in {".md", ".txt", ".py", ".tsx", ".ts", ".js", ".sql", ".csv",
                         ".json", ".log", ".jpg", ".jpeg", ".png", ".gif", ".webp"}

\* permission denied, or bytes that do not decode as the text they are read as
Unreadable(c) == ~c.entry.readable \/ c.entry.junk > 0

ReadableFile(c) ==
  /\ c.entry.readable
  /\ c.entry.junk = 0 \/ ExtensionOf(c) \in {".jpg", ".jpeg", ".png", ".gif", ".webp"}

\* every list a run has returned, and the one being built
RecordLists == {results[i] : i \in 1..Len(results)} \cup {parsed_files}

Records == UNION {{l[i] : i \in 1..Len(l)} : l \in RecordLists}

\* C1: the list parse_all_files returns has at most as many records as the
\* directory has non-hidden regular files among its immediate children, and
\* exactly as many when each of them is of a supported type and readable.
C1_RecordCount ==
  \A i \in 1..Len(results) :
    /\ Len(results[i]) <= Cardinality(VisibleFiles)
    /\ (\A c \in VisibleFiles : SupportedType(c) /\ ReadableFile(c))
         => Len(results[i]) = Cardinality(VisibleFiles)

C1_Witness ==
  /\ Len(results) >= 1
  /\ Cardinality(VisibleFiles) >= 2
  /\ \A c \in VisibleFiles : SupportedType(c) /\ ReadableFile(c)
  /\ \E c \in VisibleFiles : c.entry.text = ""
  /\ Len(results[1]) = Cardinality(VisibleFiles)

\* C2: an unreadable or corrupt file never aborts parse_all_files: no
\* exception leaves the scan because of a file that cannot be read or decoded.
C2_UnreadableNeverAborts ==
  \A i \in 1..Len(raised) :
    \A c \in desktop : c.name = raised[i].filename => ~Unreadable(c)

\* C6: every ParsedFile has non-empty content.
C6_ContentNonEmpty == \A r \in Records : r.content # ""

\* the handler parse_file must choose for a non-hidden file name
ExpectedHandler(filename) ==
  LET ext == Lower(PathSuffix(filename)) IN
    IF filename = "api-test-9-25.log" THEN "_smart_extract:log"
    ELSE IF filename = "system_logs.txt" THEN "_smart_extract:system_log"
    ELSE IF filename = "api_responses_sample.json" THEN "_smart_extract:json"
    ELSE IF filename = "dependencies_audit.csv" THEN "_smart_extract:csv_notes"
    ELSE IF ext \in {".md", ".txt"} THEN "_parse_text_file"
    ELSE IF ext \in {".py", ".tsx", ".ts", ".js", ".sql"} THEN "_parse_code_file"
    ELSE IF ext = ".csv" THEN "_parse_csv_file"
    ELSE IF ext = ".json" THEN "_parse_json_file"
    ELSE IF ext = ".log" THEN "_smart_extract:log"
    ELSE IF ext \in {".jpg", ".jpeg", ".png", ".gif", ".webp"} THEN "_parse_image_file"
    ELSE "try:_parse_text_file"

\* C7: parse_file routes each non-hidden file by the precedence (a) exact name
\* in the extraction-mode table, (b) text, code, CSV, JSON or log extension,
\* (c) image extension, (d) a guarded plain-text read.
C7_Precedence ==
  \A i \in 1..Len(calls) :
    At(calls[i].filename, 1) # "." => calls[i].handler = ExpectedHandler(calls[i].filename)

C7_Witness ==
  /\ \E i \in 1..Len(calls) :
       calls[i].filename = "system_logs.txt" /\ calls[i].handler = "_smart_extract:system_log"
  /\ \E i \in 1..Len(calls) : calls[i].handler = "try:_parse_text_file"

\* the string s sorts before t, by code point
Before(s, t) == StrLess(s, t)

\* C8: only immediate children are visited, in lexicographic path order; the
\* returned records are in strictly increasing filepath order, and the runs on
\* the unchanged directory return the same sequence.
C8_Order ==
  /\ \A r \in Records : \E c \in desktop : r.filepath = "desktop/" \o c.name
  /\ \A i \in 1..Len(calls) : \E c \in desktop : calls[i].filename = c.name
  /\ \A i, j \in 1..Len(calls) : i < j => Before(calls[i].filename, calls[j].filename)
  /\ \A l \in RecordLists :
       \A i, j \in 1..Len(l) : i < j => Before(l[i].filepath, l[j].filepath)
  /\ \A i, j \in 1..Len(results) : results[i] = results[j]

C8_Witness ==
  /\ Len(results) = 2
  /\ Len(results[2]) >= 2
  /\ \E c \in desktop : c.entry.kind = "dir" /\ c.entry.children # {}

\* C9: no record is produced for a name that begins with "." or for an entry
\* that is not a regular file, and a hidden name reaches no handler at all.
C9_HiddenAndNonRegular ==
  /\ \A r \in Records :
       /\ At(r.filename, 1) # "."
       /\ \E c \in desktop : c.name = r.filename /\ c.entry.kind = "file"
  /\ \A i \in 1..Len(calls) :
       At(calls[i].filename, 1) = "." => calls[i].handler = ""

C9_Witness ==
  /\ Len(results) >= 1
  /\ \E c \in desktop : At(c.name, 1) = "." /\ c.entry.kind = "file"
  /\ \E c \in desktop : c.entry.kind # "file"

\* the handler recorded for the file of record r in the current run
HandlerOf(r) ==
  {calls[i].handler : i \in {k \in 1..Len(calls) : calls[k].filename = r.filename}}

\* C10: file_type is one of text, code, csv, json, image, log, system_log,
\* json-dump, csv-notes; a file extracted in JSON-dump mode is typed json-dump
\* and one extracted in CSV-notes mode is typed csv-notes.
C10_ClosedTypes ==
  \A i \in 1..Len(parsed_files) :
    LET r == parsed_files[i] IN
      /\ r.file_type \in {"text", "code", "csv", "json", "image", "log", "system_log",
                          "json-dump", "csv-notes"}
      /\ "_smart_extract:json" \in HandlerOf(r) => r.file_type = "json-dump"
      /\ "_smart_extract:csv_notes" \in HandlerOf(r) => r.file_type = "csv-notes"

\* C10 as amended: file_type is one of text, code, csv, json, image, log,
\* system_log, csv_notes; a file extracted in JSON-dump mode is typed json and
\* one extracted in CSV-notes mode is typed csv_notes.
C10_ModeNamedTypes ==
  \A i \in 1..Len(parsed_files) :
    LET r == parsed_files[i] IN
      /\ r.file_type \in {"text", "code", "csv", "json", "image", "log", "system_log",
                          "csv_notes"}
      /\ "_smart_extract:json" \in HandlerOf(r) => r.file_type = "json"
      /\ "_smart_extract:csv_notes" \in HandlerOf(r) => r.file_type = "csv_notes"
      /\ "_smart_extract:system_log" \in HandlerOf(r) => r.file_type = "system_log"

C10_Witness ==
  /\ \E r \in Records : r.file_type = "csv_notes"
  /\ \E r \in Records : r.file_type = "json" /\ r.filename = "api_responses_sample.json"

\* what parse_file returns for the entry c when called on it alone
ParsedAlone(c) == parse_file(Append(DesktopPath, c.name), c.entry)

PlainJson(c) ==
  /\ c.entry.kind = "file"
  /\ At(c.name, 1) # "."
  /\ ExtensionOf(c) = ".json"
  /\ c.name \notin {"api-test-9-25.log", "system_logs.txt", "api_responses_sample.json",
                    "dependencies_audit.csv"}

\* the text of c can be read and is not a JSON document
InvalidJson(c) ==
  /\ c.entry.readable
  /\ c.entry.junk = 0
  /\ json_load(c.entry.text).exc # ""

\* C13: a structurally invalid JSON file handled by the JSON handler is a hard
\* failure: once parse_file has been called on it, the JSONDecodeError has
\* left parse_file and parse_all_files, no further file is parsed and the run
\* returns no record list.
C13_InvalidJsonPropagates ==
  /\ \A i \in 1..Len(calls) : \A c \in desktop :
       (i = Len(calls) /\ c.name = calls[i].filename /\ PlainJson(c) /\ InvalidJson(c))
       => /\ pc = "raised"
          /\ raised = <<[exc |-> "JSONDecodeError", filename |-> c.name]>>
  /\ pc = "raised" => ~ENABLED ParseEntry /\ ~ENABLED ParseRaises /\ ~ENABLED ReturnFiles

\* the run had parsed a file before the invalid document ended it
C13_Witness ==
  /\ pc = "raised"
  /\ raised[1].exc = "JSONDecodeError"
  /\ parsed_files # <<>>
  /\ results = <<>>

\* a visible file that neither the table nor any extension set claims
Unclassified(c) ==
  /\ c.entry.kind = "file"
  /\ At(c.name, 1) # "."
  /\ ~SupportedType(c)

\* the records of the current run that carry the name of c
RecordsOf(c) == {i \in 1..Len(parsed_files) : parsed_files[i].filename = c.name}

\* C14: a file of no known extension is never an error: parse_file tries a
\* plain-text read, returns a record of type text holding the text when the
\* read succeeds, and returns nothing, raising nothing, when it fails.
C14_FallbackNeverRaises ==
  \A i \in 1..Len(calls) : \A c \in desktop :
    (c.name = calls[i].filename /\ Unclassified(c))
    => /\ calls[i].handler = "try:_parse_text_file"
       /\ \A k \in 1..Len(raised) : raised[k].filename # c.name
       /\ IF Unreadable(c) THEN RecordsOf(c) = {}
          ELSE \E k \in RecordsOf(c) :
                 /\ RecordsOf(c) = {k}
                 /\ parsed_files[k].file_type = "text"
                 /\ parsed_files[k].content = c.entry.text

\* a run has returned after one fallback read failed and another succeeded
C14_Witness ==
  /\ results # <<>>
  /\ \E c \in desktop : Unclassified(c) /\ Unreadable(c)
  /\ \E c \in desktop :
       /\ Unclassified(c)
       /\ \E k \in 1..Len(results[1]) :
            results[1][k].filename = c.name /\ results[1][k].file_type = "text"

(***************************************************************************)
(* Properties of image records (specification ImageSpec).                  *)
(***************************************************************************)
\* the media type the extension of a file name stands for
MediaTypeOfName(name) ==
  LET ext == Lower(PathSuffix(name)) IN
    IF ext \in {".jpg", ".jpeg"} THEN "image/jpeg"
    ELSE IF ext = ".png" THEN "image/png"
    ELSE IF ext = ".gif" THEN "image/gif"
    ELSE IF ext = ".webp" THEN "image/webp"
    ELSE ""

\* C15: the record of an image file has file_type image, the bracketed
\* placeholder naming the file as content, and a payload tagged with the media
\* type of its extension; a record carries a payload exactly when its
\* file_type is image, and every image file parsed gets such a record.
C15_ImageRecord ==
  /\ \A r \in Records :
       /\ (r.file_type = "image") <=> (r.image_base64 # <<>>)
       /\ (r.file_type = "image") <=> (MediaTypeOfName(r.filename) # "")
       /\ r.file_type = "image" =>
            /\ r.content = "[Image file: " \o r.filename \o "]"
            /\ StartsWith(r.image_base64[1],
                          "data:" \o MediaTypeOfName(r.filename) \o ";base64,")
            /\ \A c \in desktop :
                 c.name = r.filename =>
                   /\ r.image_base64[1] =
                        "data:" \o MediaTypeOfName(r.filename) \o ";base64,"
                        \o B64Encode(FileBytes(c.entry))
                   /\ (c.entry.text # "" => r.content # c.entry.text)
  /\ \A i \in 1..Len(calls) :
       (MediaTypeOfName(calls[i].filename) # "" /\ calls[i].handler # "")
       => \/ \E k \in 1..Len(parsed_files) :
               parsed_files[k].filename = calls[i].filename
               /\ parsed_files[k].file_type = "image"
          \/ pc = "raised" /\ i = Len(calls)

\* a returned list holds a png record tagged image/png next to a record
\* that is not an image
C15_Witness ==
  /\ results # <<>>
  /\ \E k \in 1..Len(results[1]) :
       /\ results[1][k].filename = "photo.png"
       /\ StartsWith(results[1][k].image_base64[1], "data:image/png;base64,UE5H")
  /\ \E k \in 1..Len(results[1]) : results[1][k].file_type = "text"

(***************************************************************************)
(* Properties of the extractor (specification ExtractSpec).                *)
(***************************************************************************)
\* the ExtractedContent records the calls so far have returned, with the call
Returns == {i \in 1..Len(extracted) : extracted[i].outcome.exc = ""}

ResultOf(i) == extracted[i].outcome.value[1]

\* C3: extracted_size equals the UTF-8 byte length of meaningful_content in
\* every ExtractedContent, for every mode and every input, malformed or not.
C3_SizeIsByteLength ==
  \A i \in Returns :
    ResultOf(i).extracted_size = Utf8Len(ResultOf(i).meaningful_content)

\* the retained units found in a content: "Line n" lines of the log modes,
\* "- [" lines of the CSV-notes mode, and for the JSON mode the endpoint lines
\* of the snapshot form or the top-level entries of the serialized document
UnitsIn(mode, content) ==
  LET ls == Split(content, "\n")
      endpoints == {i \in 1..Len(ls) : ls[i] = "--- API Endpoints ---"}
      full == {i \in 1..Len(ls) : ls[i] = "--- Full Content ---"}
  IN IF mode \in {"log", "system_log"}
     THEN Cardinality({i \in 1..Len(ls) : StartsWith(ls[i], "Line ")})
     ELSE IF mode = "csv_notes"
     THEN Cardinality({i \in 1..Len(ls) : StartsWith(ls[i], "- [")})
     ELSE IF endpoints # {}
     THEN LET e == CHOOSE i \in endpoints : TRUE IN
            Cardinality({j \in (e + 1)..Len(ls) :
                           \A k \in (e + 1)..j : StartsWith(ls[k], "- ")})
     ELSE IF full # {}
     THEN LET e == CHOOSE i \in full : TRUE IN
            Cardinality({j \in (e + 1)..Len(ls) :
                           /\ StartsWith(ls[j], "  ")
                           /\ Len(ls[j]) >= 3
                           /\ At(ls[j], 3) \notin {" ", "}", "]"}})
     ELSE 0

\* C4: items_found equals the number of retained units (lines, rows or
\* top-level entries) that are present in meaningful_content.
C4_ItemsAreUnits ==
  \A i \in Returns :
    ResultOf(i).items_found = UnitsIn(extracted[i].mode, ResultOf(i).meaningful_content)

C4_Witness ==
  \E i \in Returns :
    /\ extracted[i].mode = "log"
    /\ ResultOf(i).items_found = 1
    /\ Len(FileLines(extracted[i].file.text)) = 2

\* the content opens with a line naming the file, followed by a statement of
\* what was scanned and found: the "(Scanned ..." line of the log and CSV
\* modes, or the "Type: ... with n ..." line of the JSON mode
HasProvenanceHeader(filename, content) ==
  LET ls == Split(content, "\n") IN
    /\ Len(ls) >= 2
    /\ ls[1] \in {"=== " \o filename \o " ===",
                  "=== Human Comments Found in " \o filename \o " ===",
                  "=== Important Items from " \o filename \o " ===",
                  "=== Notes from " \o filename \o " ===",
                  "=== Extracted from " \o filename \o " ==="}
    /\ \/ StartsWith(ls[2], "(Scanned ")
       \/ Len(ls) >= 3 /\ StartsWith(ls[3], "Type: ")

\* C5: in every mode and for every input, meaningful_content begins with a
\* provenance header naming the source file and stating how much was scanned
\* and how much retained, also when nothing matches or the input cannot be parsed.
C5_ProvenanceHeader ==
  \A i \in Returns :
    HasProvenanceHeader(extracted[i].filename, ResultOf(i).meaningful_content)

\* the call that has just been recorded.  Calls are only ever appended to the
\* record, so every recorded call is the latest one in the state it was made in,
\* and a property of the latest call in every state holds of every call.
Latest == {i \in 1..Len(extracted) : i = Len(extracted)}

\* what a newly constructed extractor returns for the file in the given mode
FreshExtraction(mode, filename, file) ==
  IF mode = "log" THEN extract_from_log("desktop/" \o filename, file)
  ELSE IF mode = "system_log" THEN extract_from_system_logs("desktop/" \o filename, file)
  ELSE IF mode = "csv_notes" THEN extract_from_csv_notes("desktop/" \o filename, file)
  ELSE extract_from_json("desktop/" \o filename, file)

BodyLines(content) ==
  LET ls == Split(content, "\n") IN
    IF Len(ls) >= 4 /\ ls[3] = "" THEN SubSeq(ls, 4, Len(ls)) ELSE <<>>

\* body holds one entry for each line number of kept and no other, in the
\* order of kept, each the number and the stripped line
RetainedExactly(lines, body, kept) ==
  /\ Len(body) = Len(kept)
  /\ \A j \in 1..Len(body) :
       body[j] = "Line " \o ToString(kept[j]) \o ": " \o Strip(lines[kept[j]])

\* the numbers of the lines that match the human-signal pattern set, increasing
HumanLines(lines) ==
  SelectSeq([k \in 1..Len(lines) |-> k], LAMBDA k : human_pattern_search(lines[k]))

\* C17: in log mode a line is retained if and only if it matches the
\* case-insensitive human-signal pattern set; each retained line appears once,
\* prefixed with its 1-based line number, in increasing line-number order.  A
\* line with "# TODO: fix this" matches, "INFO: request completed" does not.
C17_LogRetention ==
  /\ human_pattern_search("# TODO: fix this\n")
  /\ human_pattern_search("# todo: fix this\n")
  /\ ~human_pattern_search("INFO: request completed\n")
  /\ \A i \in Latest \cap Returns :
       extracted[i].mode = "log" =>
         \E lines \in {FileLines(extracted[i].file.text)} :
           \E kept \in {HumanLines(lines)} :
             RetainedExactly(lines, BodyLines(ResultOf(i).meaningful_content), kept)

\* a machine line was dropped and the TODO line after it kept as line 2
C17_Witness ==
  \E i \in Returns :
    /\ extracted[i].mode = "log"
    /\ extracted[i].file.text = "INFO: request completed\n# TODO: fix this\n"
    /\ BodyLines(ResultOf(i).meaningful_content) = <<"Line 2: # TODO: fix this">>

\* the number of lines of a text: its newlines, and a last line without one
LineTotal(text) ==
  Cardinality({k \in 1..Len(text) : At(text, k) = "\n"})
  + (IF text # "" /\ At(text, Len(text)) # "\n" THEN 1 ELSE 0)

\* the second line of a content: the statement of what was scanned and found
ScanLine(content) == Split(content, "\n")[2]

\* the scan statement of each mode for the given counts, as numerals
ScanStatement(mode, scanned, found) ==
  IF mode = "log"
  THEN IF found = 0 THEN "(Scanned " \o scanned \o " lines, no human comments found)"
       ELSE "(Scanned " \o scanned \o " lines, found " \o ToString(found)
            \o " with human content)"
  ELSE IF found = 0 THEN "(Scanned " \o scanned \o " lines, all normal INFO logs)"
       ELSE "(Scanned " \o scanned \o " lines, found " \o ToString(found) \o " important)"

\* C18 as stated: in log and system-log mode the header states the total
\* number of lines of the file as a plain numeral ("10000") and the found
\* count, which equals items_found.
C18_PlainCounts ==
  \A i \in Returns :
    extracted[i].mode \in {"log", "system_log"} =>
      ScanLine(ResultOf(i).meaningful_content) =
        ScanStatement(extracted[i].mode, ToString(LineTotal(extracted[i].file.text)),
                      ResultOf(i).items_found)

\* C18, amended: the whole input is scanned: the header states the total
\* number of lines of the file, with thousands separators in log mode
\* ("1,000") and as a plain numeral in system-log mode, and the found count,
\* which equals items_found; the long log with exactly three human lines
\* gives items_found = 3.
C18_WholeInputScanned ==
  \A i \in Returns :
    extracted[i].mode \in {"log", "system_log"} =>
      /\ ScanLine(ResultOf(i).meaningful_content) =
           ScanStatement(extracted[i].mode,
                         IF extracted[i].mode = "log"
                         THEN FormatThousands(LineTotal(extracted[i].file.text))
                         ELSE ToString(LineTotal(extracted[i].file.text)),
                         ResultOf(i).items_found)
      /\ extracted[i].file.text = LongLogText => ResultOf(i).items_found = 3

\* the long log has been scanned to its end in log mode
C18_Witness ==
  \E i \in Returns :
    /\ extracted[i].mode = "log"
    /\ extracted[i].file.text = LongLogText
    /\ LineTotal(extracted[i].file.text) = LongLogLines
    /\ ResultOf(i).items_found = 3
    /\ Len(BodyLines(ResultOf(i).meaningful_content)) = 3

\* the line holds [WARN, [ERROR, [FATAL or [CRITICAL, in any letter case
HasSeverity(line) ==
  \E marker \in {"[WARN", "[ERROR", "[FATAL", "[CRITICAL"} : Contains(Upper(line), marker)

\* the numbers of the lines system-log mode is to keep, increasing
ImportantLines(lines) ==
  SelectSeq([k \in 1..Len(lines) |-> k],
            LAMBDA k : HasSeverity(lines[k]) \/ human_pattern_search(lines[k]))

\* body holds one entry for each line number of kept and no other, in the
\* order of kept, untagged for a severity line and tagged "(human)" otherwise
TaggedExactly(lines, body, kept) ==
  /\ Len(body) = Len(kept)
  /\ \A j \in 1..Len(body) :
       body[j] = "Line " \o ToString(kept[j])
                 \o (IF HasSeverity(lines[kept[j]]) THEN "" ELSE " (human)")
                 \o ": " \o Strip(lines[kept[j]])

\* C19: in system-log mode a line is retained if and only if it contains one
\* of [WARN, [ERROR, [FATAL, [CRITICAL in any letter case or matches the
\* human-signal pattern set; it is emitted once, untagged when it contains a
\* severity marker and tagged "(human)" only when it matches a human pattern
\* and contains no marker.
C19_SystemLogRetention ==
  /\ HasSeverity("[ERROR] connection refused\n")
  /\ ~human_pattern_search("[ERROR] connection refused\n")
  /\ \A i \in Latest \cap Returns :
       extracted[i].mode = "system_log" =>
         \E lines \in {FileLines(extracted[i].file.text)} :
           \E kept \in {ImportantLines(lines)} :
             TaggedExactly(lines, BodyLines(ResultOf(i).meaningful_content), kept)

\* a line with a marker and a human pattern is untagged, a human line tagged
C19_Witness ==
  \E i \in Returns :
    /\ extracted[i].mode = "system_log"
    /\ BodyLines(ResultOf(i).meaningful_content) =
         <<"Line 1: [warn] disk full, need to clean", "Line 2 (human): please ask bob">>

\* the cells <<row, column>> of a note-like column that hold a non-empty
\* value after trimming; rows are the non-blank records under the header
NoteCells(headers, rows) ==
  {p \in (1..Len(rows)) \X (1..Len(headers)) :
     /\ Lower(headers[p[2]]) \in {"notes", "note", "comments", "comment", "description"}
     /\ p[2] <= Len(rows[p[1]])
     /\ Strip(rows[p[1]][p[2]]) # ""}

\* the place of cell p among cells, in row order then column order
CellRank(p, cells) ==
  1 + Cardinality({q \in cells : q[1] < p[1] \/ (q[1] = p[1] /\ q[2] < p[2])})

\* the call returned, with one line per note cell and no other, in order
NotesEmitted(i, rows, cells) ==
  /\ i \in Returns
  /\ ResultOf(i).items_found = Cardinality(cells)
  /\ \E body \in {BodyLines(ResultOf(i).meaningful_content)} :
       /\ Len(body) = Cardinality(cells)
       /\ \A p \in cells :
            body[CellRank(p, cells)] =
              "- [" \o rows[p[1]][1] \o "] " \o Strip(rows[p[1]][p[2]])

\* C20: in CSV-notes mode, for every row and every column whose header is,
\* in any letter case, one of notes, note, comments, comment, description and
\* whose value in that row is non-empty after trimming, exactly one line
\* "- [<first-column value of the row>] <note value>" is emitted, in row order
\* then column order, and items_found is the number of emitted lines.
C20_NotesEmitted ==
  \A i \in 1..Len(extracted) :
    (/\ extracted[i].mode = "csv_notes"
     /\ extracted[i].file.readable
     /\ extracted[i].file.junk = 0) =>
      \E recs \in {CsvRecords(extracted[i].file.text)} :
        \E rows \in {IF recs = <<>> THEN <<>> ELSE SelectSeq(Tail(recs), CsvNotBlank)} :
          NotesEmitted(i, rows, NoteCells(IF recs = <<>> THEN <<>> ELSE recs[1], rows))

\* "a few KB", in bytes
FewKB == 4 * 1024

\* C16: the size of the extracted output is bounded independently of the
\* input: in every mode extracted_size stays within a few KB, however large
\* the file is and however many lines, rows or entries it has.
C16_BoundedOutput ==
  \A i \in Returns : ResultOf(i).extracted_size <= FewKB

\* the header names of a CSV text that are note-like, in any letter case
NoteHeaders(text) ==
  {h \in {CsvHeaders(text)[k] : k \in 1..Len(CsvHeaders(text))} :
     Lower(h) \in {"notes", "note", "comments", "comment", "description"}}

\* the content is the form without notes: the name, the scan statement saying
\* that no notes column was found, and the column list
ColumnListForm(content, filename, headers) ==
  \E ls \in {Split(content, "\n")} :
    /\ Len(ls) = 3
    /\ ls[1] = "=== " \o filename \o " ==="
    /\ StartsWith(ls[2], "(Scanned ")
    /\ Contains(ls[2], " rows, no notes column found)")
    /\ ls[3] = "Columns: " \o Join(", ", headers)

\* C21: in CSV-notes mode, when no header of the file is a note-like column,
\* the output states the file's column list instead of notes and items_found
\* is 0.
C21_ColumnList ==
  \A i \in Latest :
    (/\ extracted[i].mode = "csv_notes"
     /\ extracted[i].file.readable
     /\ extracted[i].file.junk = 0
     /\ NoteHeaders(extracted[i].file.text) = {}) =>
      /\ i \in Returns
      /\ ResultOf(i).items_found = 0
      /\ ColumnListForm(ResultOf(i).meaningful_content, extracted[i].filename,
                        CsvHeaders(extracted[i].file.text))

\* a CSV with the columns id and name and one row has been extracted
C21_Witness ==
  \E i \in Returns :
    /\ extracted[i].mode = "csv_notes"
    /\ extracted[i].file.text = "id,name\n1,a\n"
    /\ ResultOf(i).items_found = 0
    /\ Split(ResultOf(i).meaningful_content, "\n")[3] = "Columns: id, name"

\* C26: CSV-notes mode reports that no notes column was found only when the
\* file has no note-like column: whenever a header is note-like the output is
\* the notes form, even if every value of the matched columns is empty.
C26_NotesFormWhenColumn ==
  \A i \in Latest \cap Returns :
    (extracted[i].mode = "csv_notes" /\ NoteHeaders(extracted[i].file.text) # {}) =>
      /\ ~Contains(ResultOf(i).meaningful_content, "no notes column found")
      /\ StartsWith(ResultOf(i).meaningful_content,
                    "=== Notes from " \o extracted[i].filename \o " ===\n")

\* the document a JSON-mode call has read, as a one-element set; empty when
\* the text of the file is not a JSON document
DocumentOf(i) ==
  {d \in JsonDocs : json_dumps(d) = extracted[i].file.text}

\* the document is a mapping whose "snapshots" entry is a list
SnapshotShaped(d) ==
  /\ d.t = "dict"
  /\ \E k \in 1..Len(d.items) : d.items[k].k = "snapshots" /\ d.items[k].v.t = "list"

\* the list under "snapshots"
SnapshotsOf(d) ==
  d.items[CHOOSE k \in 1..Len(d.items) : d.items[k].k = "snapshots"].v.items

\* C22: in JSON mode items_found is the number of snapshots when the document
\* has the API-snapshot shape, and otherwise the number of top-level keys of a
\* mapping or elements of a sequence, whose full re-serialized structure is in
\* the content; a bare array of 5 objects gives items_found = 5.
C22_JsonItems ==
  \A i \in Latest \cap Returns :
    extracted[i].mode = "json" =>
      \A d \in DocumentOf(i) :
        IF SnapshotShaped(d)
        THEN ResultOf(i).items_found = Len(SnapshotsOf(d))
        ELSE d.t \in {"dict", "list"} =>
               /\ ResultOf(i).items_found = Len(d.items)
               /\ Contains(ResultOf(i).meaningful_content, json_dumps(d))

\* the array of five objects has been extracted
C22_Witness ==
  \E i \in Returns :
    /\ extracted[i].mode = "json"
    /\ \E d \in DocumentOf(i) :
         /\ d.t = "list" /\ Len(d.items) = 5
         /\ \A k \in 1..5 : d.items[k].t = "dict"
    /\ ResultOf(i).items_found = 5

\* the snapshot is a mapping whose response is a mapping whose data is a
\* mapping with a permissions entry
CarriesPermissions(snapshot) ==
  /\ snapshot.t = "dict"
  /\ \E r \in 1..Len(snapshot.items) :
       /\ snapshot.items[r].k = "response"
       /\ snapshot.items[r].v.t = "dict"
       /\ \E a \in 1..Len(snapshot.items[r].v.items) :
            /\ snapshot.items[r].v.items[a].k = "data"
            /\ snapshot.items[r].v.items[a].v.t = "dict"
            /\ \E p \in 1..Len(snapshot.items[r].v.items[a].v.items) :
                 snapshot.items[r].v.items[a].v.items[p].k = "permissions"

\* the permissions entry of a snapshot that carries one
PermissionsOf(snapshot) ==
  DictGet(DictGet(DictGet(snapshot, "response", JNull), "data", JNull), "permissions", JNull)

\* the number of places of content at which part starts
Occurrences(content, part) ==
  Cardinality({k \in 1..Len(content) : StartsAt(content, k, part)})

\* C23: in JSON mode on a snapshot-shaped document the output has at most one
\* permissions block, and it renders the permissions list of the first
\* snapshot, in list order, whose response data is a mapping carrying a
\* permissions entry; later snapshots with permissions are not rendered.
C23_FirstPermissions ==
  \A i \in Latest \cap Returns :
    extracted[i].mode = "json" =>
      \A d \in {x \in DocumentOf(i) : SnapshotShaped(x)} :
        \E hits \in {{k \in 1..Len(SnapshotsOf(d)) : CarriesPermissions(SnapshotsOf(d)[k])}} :
          /\ Occurrences(ResultOf(i).meaningful_content, "--- Permissions Structure ---")
               = (IF hits = {} THEN 0 ELSE 1)
          /\ Occurrences(ResultOf(i).meaningful_content, "Permissions: ")
               = (IF hits = {} THEN 0 ELSE 1)
          /\ \A k \in hits :
               (\A j \in hits : k <= j) =>
                 \E perms \in {PermissionsOf(SnapshotsOf(d)[k]).items} :
                   Contains(ResultOf(i).meaningful_content,
                            "\n--- Permissions Structure ---\nPermissions: "
                            \o Join(", ", [n \in 1..Len(perms) |-> perms[n].s]) \o "\n")

\* of two snapshots with permissions only the first has been rendered
C23_Witness ==
  \E i \in Returns :
    /\ extracted[i].mode = "json"
    /\ \E d \in DocumentOf(i) :
         /\ SnapshotShaped(d)
         /\ Cardinality({k \in 1..Len(SnapshotsOf(d)) :
                           CarriesPermissions(SnapshotsOf(d)[k])}) = 2
    /\ Contains(ResultOf(i).meaningful_content, "Permissions: read, write\n")
    /\ ~Contains(ResultOf(i).meaningful_content, "admin")

\* C25: extract_from_json returns an ExtractedContent, without raising, for
\* every file that can be read: text that is not JSON gives a record with
\* items_found = 0, and every JSON document gives a record, whatever its
\* top-level value and whatever the elements of its snapshots list or of a
\* top-level sequence are.
C25_JsonNeverRaises ==
  \A i \in Latest :
    (/\ extracted[i].mode = "json"
     /\ extracted[i].file.readable
     /\ extracted[i].file.junk = 0) =>
      /\ i \in Returns
      /\ DocumentOf(i) = {} => ResultOf(i).items_found = 0

(***************************************************************************)
(* Properties of VectorStore.store (specification StoreSpec).              *)
(***************************************************************************)
\* the note has content that is not blank
NoteIndexable(note) == Strip(DictGet(note, "content", JStr("")).s) # ""

\* the text made of the event's title and description is not blank
EventIndexable(event) ==
  Strip(PyStr(DictGet(event, "title", JStr(""))) \o ". "
        \o PyStr(DictGet(event, "description", JStr("")))) # ""

\* the ids a result is to be indexed under: one for each note and each
\* event that is not blank, numbered by its position in the result
IndexableIds(result) ==
  {"note_" \o ToString(k - 1) :
     k \in {j \in 1..Len(result.notes) : NoteIndexable(result.notes[j])}}
  \cup {"event_" \o ToString(k - 1) :
          k \in {j \in 1..Len(result.calendar_events) :
                   EventIndexable(result.calendar_events[j])}}

\* C24: in every store call the lists of documents, metadata and ids have
\* the same length and no id occurs twice, so the collection never refuses
\* them; the ids are those of the notes and events that are not blank, and
\* no document is blank.
C24_StoreLists ==
  \A i \in 1..Len(stored) :
    LET o == stored[i].outcome IN
      /\ o.exc # "ValueError"
      /\ Len(o.documents) = Len(o.ids)
      /\ Len(o.metadatas) = Len(o.ids)
      /\ \A j, k \in 1..Len(o.ids) : j # k => o.ids[j] # o.ids[k]
      /\ \A k \in 1..Len(o.documents) : Strip(o.documents[k]) # ""
      /\ o.exc = "" => {o.ids[k] : k \in 1..Len(o.ids)} = IndexableIds(stored[i].result)

\* a call has returned for a result with a blank note among several
\* indexable notes and events
C24_Witness ==
  \E i \in 1..Len(stored) :
    /\ stored[i].outcome.exc = ""
    /\ Len(stored[i].outcome.ids) >= 3
    /\ \E k \in 1..Len(stored[i].result.notes) : ~NoteIndexable(stored[i].result.notes[k])
    /\ stored[i].result.calendar_events # <<>>

\* the entries the lists of a store call describe
EntriesOf(o) ==
  {CollectionEntry(o.ids[k], o.documents[k], o.metadatas[k]) : k \in 1..Len(o.ids)}

StageOrder == <<"parse", "llm", "journal", "calendar", "index">>

\* C27: in every run of main without --rebuild-vectordb the stages start in
\* the order parse, language model, journal, calendar, index, each after
\* the one before it has returned, and nothing starts after a stage that
\* raised; if the input directory is missing, the run exits with status 1
\* and no stage has started; with --rebuild-vectordb only the index rebuild
\* runs, nothing is parsed and no result is asked of the language model,
\* whether the input directory exists or not.
C27_StageOrder ==
  main.pc # "idle" =>
    /\ ~main.args.rebuild_vectordb =>
         /\ Len(main.trace) <= 2 * Len(StageOrder)
         /\ \A k \in 1..Len(main.trace) :
              /\ main.trace[k].stage = StageOrder[(k + 1) \div 2]
              /\ k % 2 = 1 => main.trace[k].event = "start"
              /\ k % 2 = 0 => main.trace[k].event \in {"return", "raise"}
              /\ main.trace[k].event = "raise" => k = Len(main.trace) /\ main.pc = "exited"
         /\ main.pc = "exited" /\ main.exit[1].exc = "" /\ main.exit[1].status = 0
              => Len(main.trace) = 2 * Len(StageOrder)
    /\ ~main.args.rebuild_vectordb /\ ~isdir(main.args.input_dir) =>
         /\ main.trace = <<>>
         /\ Len(results) = main.before /\ pc = "idle"
         /\ main.pc = "exited" => main.exit = <<[status |-> 1, exc |-> ""]>>
    /\ main.args.rebuild_vectordb =>
         /\ \A k \in 1..Len(main.trace) : main.trace[k].stage = "rebuild"
         /\ Len(results) = main.before /\ pc = "idle"
         /\ main.result = <<>>
         /\ main.pc = "exited" => Len(main.trace) = 2

\* a full run has indexed its result, and the run after it, started with
\* --rebuild-vectordb on an input directory that does not exist, has
\* rebuilt the index and returned
C27_Witness ==
  /\ main.runs = 2
  /\ main.args.rebuild_vectordb
  /\ ~isdir(main.args.input_dir)
  /\ main.pc = "exited"
  /\ main.exit = <<[status |-> 0, exc |-> ""]>>
  /\ main.trace = <<StageEvent("rebuild", "start"), StageEvent("rebuild", "return")>>
  /\ Len(stored) = 1
  /\ stored[1].outcome.exc = ""
  /\ collection # {}

=============================================================================
